---- MODULE Spec2Model ----
(***************************************************************************)
(* Timeline core of nachat (src/src/TimelineView.cpp): the event stream    *)
(* (batches, pending queue, identifier counter), the block partitioner     *)
(* and the selection resolver.                                             *)
(*                                                                         *)
(* std::experimental::optional<T> is a sequence of length 0 or 1.          *)
(* A QString is a sequence of one-character strings.                       *)
(* Times are minutes since the epoch.                                      *)
(***************************************************************************)
EXTENDS Integers, Sequences, FiniteSets, TLC

VARIABLES
  batches_,     \* std::deque<Batch>: [begin, events]
  pending_,     \* std::deque<Pending>: [transaction, event]
  at_bottom_,   \* live-edge flag
  id_counter_,  \* next TimelineEventID
  blocks_,      \* std::deque<EventBlock>
  selection_,   \* Selection: [begin, end, mode]
  selection_updating_,  \* a press of the left button started a drag that no release ended
  click_count_, \* presses in a row within the double-click interval, less one
  resolved,     \* result of the last selection_text(): per-region ranges, bottom to top
  time_rep,     \* how this build represents Time (TimelineView.hpp): its differences
                \* are "signed", or "unsigned" and wrap around below zero
  width_,       \* the width update_layout lays the blocks out to
  visible_blocks_, \* the blocks the last paintEvent drew, bottom to top, each with
                \* the origin it was drawn at (viewport coordinates)
  health,       \* "ok"; after undefined behaviour "crashed" (the process died) or
                \* "undefined" (it went on with arbitrary values); nothing runs after either
  emitted,      \* the signals the last operation emitted
  lastOp        \* the operation that produced this state, with its locals

vars == <<batches_, pending_, at_bottom_, id_counter_, blocks_, selection_,
          selection_updating_, click_count_, resolved, time_rep, width_, visible_blocks_, health,
          emitted, lastOp>>

----------------------------------------------------------------------------
(* Bounds and input sets *)

MaxId == 3

Self == "A"
Transactions == {"x", "y"}

BLOCK_MERGE_INTERVAL == 5

\* The widths of the viewport, less the block padding, in the units of
\* FontMetrics: one too narrow for a timestamp beside the name, one wide enough
Widths == {10, 16}
WidestWidth == CHOOSE w \in Widths : \A v \in Widths : v <= w

Some(x) == <<x>>
None == <<>>

\* The content of an event in its redacted form
RedactedContent == <<>>

\* matrix::event::room::Message::tag(), Create::tag(), Member::tag()
MessageTag == "m.room.message"
CreateTag == "m.room.create"
MemberTag == "m.room.member"

\* matrix::Membership
Memberships == {"invite", "join", "leave", "ban"}

\* The confirmed protocol events over the given senders, timestamps, event
\* identifiers and bodies.  Only the local user's own events carry a
\* transaction token.
RawEventsOver(senders, times, ids, txs, bodies) ==
  { e \in [id : ids, sender : senders, origin_server_ts : times,
           txid : {None} \cup {Some(t) : t \in txs},
           type : {MessageTag}, content : bodies,
           redacted : {FALSE}, reason : {None}] :
      e.txid # None => e.sender = Self }

\* Inputs that vary what reconciliation reads: the transaction tokens
DedupInputs ==
  [cursors |-> {"c1"},
   raw |-> RawEventsOver({Self}, {0}, {"e1"}, Transactions, { <<"a">> }),
   txs |-> Transactions, times |-> {0}, bodies |-> { <<"a">> }, targets |-> {"e1"},
   reasons |-> {None}]

\* Inputs that vary what the block partitioner reads: senders and timestamps
BlockInputs ==
  [cursors |-> {"c1"},
   raw |-> RawEventsOver({"A"}, {0, 3, 9}, {"e1"}, {}, { <<"a">> })
             \cup RawEventsOver({"B"}, {0}, {"e1"}, {}, { <<"a">> }),
   txs |-> {"x"}, times |-> {0, 9}, bodies |-> { <<"a">> }, targets |-> {"e1"},
   reasons |-> {None}]

\* Inputs that vary what redaction reads: the event identifiers (e1 is the
\* one redactions name, e2 the one they leave alone), events the server
\* delivers already redacted, and the reason of the redaction
RedactInputs ==
  [cursors |-> {"c1"},
   raw |-> [id : {"e1", "e2"}, sender : {Self}, origin_server_ts : {0}, txid : {None},
            type : {MessageTag}, content : { <<"a">> }, redacted : {FALSE}, reason : {None}]
           \cup
           [id : {"e1"}, sender : {Self}, origin_server_ts : {0}, txid : {None},
            type : {MessageTag}, content : {RedactedContent}, redacted : {TRUE}, reason : {None}],
   txs |-> {"x"}, times |-> {0}, bodies |-> { <<"a">> }, targets |-> {"e1"},
   reasons |-> {None, Some(<<"r">>)}]

\* Inputs that vary what the order of the confirmed events reads: the batch
\* an event arrives in, and whether it confirms a pending record
OrderInputs ==
  [cursors |-> {"c1", "c2"},
   raw |-> RawEventsOver({Self}, {0}, {"e1"}, {"x"}, { <<"a">> }),
   txs |-> {"x"}, times |-> {0}, bodies |-> { <<"a">> }, targets |-> {"e1"},
   reasons |-> {None}]

\* Inputs that vary what the history signals read: the type of the event
SignalInputs ==
  [cursors |-> {"c1"},
   raw |-> [id : {"e1"}, sender : {Self}, origin_server_ts : {0}, txid : {None},
            type : {MessageTag, CreateTag}, content : { <<"a">> },
            redacted : {FALSE}, reason : {None}],
   txs |-> {"x"}, times |-> {0}, bodies |-> { <<"a">> }, targets |-> {"e1"},
   reasons |-> {None}]

----------------------------------------------------------------------------
(* Sequence helpers *)

RECURSIVE Concat(_)
Concat(ss) == IF ss = <<>> THEN <<>> ELSE Head(ss) \o Concat(Tail(ss))

Reverse(s) == [i \in 1..Len(s) |-> s[Len(s) + 1 - i]]

\* An erase that takes everything from position i on
RemoveAt_from(s, i) == SubSeq(s, 1, i - 1)

\* std::deque::erase(it)
RemoveAt(s, i) == SubSeq(s, 1, i - 1) \o SubSeq(s, i + 1, Len(s))

----------------------------------------------------------------------------
\* Membership events of sender A.  The content of such an event carries,
\* beside membership and displayname, what EventLike::EventLike keeps in
\* affected_user_info: the user the event is about and the membership and
\* displayname the room state holds for them before the event.
MemberInputs ==
  [cursors |-> {"c1"},
   raw |-> [id : {"e1"}, sender : {"A"}, origin_server_ts : {0}, txid : {None},
            type : {MemberTag},
            content : [user : {"A", "B"}, membership : Memberships, displayname : {None},
                       prev_membership : Memberships, prev_displayname : {None},
                       avatar_changed : {FALSE}],
            redacted : {FALSE}, reason : {None}]]

(* Event Record Model *)

to_time_point(ts) == ts

\* A local record built with a stand-in for the underlying event
EventLikeFake_sourced(id, sender, time, content) ==
  [id |-> id, type |-> MessageTag, sender |-> sender, time |-> Some(time),
   content |-> content,
   event |-> Some([id |-> "local", sender |-> sender, origin_server_ts |-> time,
                   txid |-> None, type |-> MessageTag, content |-> content,
                   redacted |-> FALSE, reason |-> None])]

\* EventLike::EventLike (the delegated-to constructor; no underlying event)
EventLikeFake(id, sender, time, content) ==
  [id |-> id, type |-> MessageTag, sender |-> sender, time |-> Some(time),
   content |-> content, event |-> None]

\* EventLike::EventLike (from a real event)
EventLike(id, real) ==
  [EventLikeFake(id, real.sender, to_time_point(real.origin_server_ts), real.content)
     EXCEPT !.event = Some(real), !.type = real.type]

\* matrix::event::Room::redact(because): the source becomes its redacted
\* form and carries the redaction (unsigned_data()->redacted_because()) that
\* Event::Event reads the reason from.  The function is defined outside this
\* file: when the source already carries a redaction it either replaces it
\* with the new one or keeps the old one.
SourceRedact(real, because, replaces) ==
  IF real.redacted /\ ~replaces
  THEN [real EXCEPT !.content = RedactedContent]
  ELSE [real EXCEPT !.redacted = TRUE, !.content = RedactedContent, !.reason = because]

\* A redaction applicator that leaves the record's time in place
EventLike_redact_keeptime(e, because, replaces) ==
  LET red == SourceRedact(e.event[1], because, replaces)
  IN [e EXCEPT !.event = Some(red), !.content = red.content]

\* EventLike::redact on a record with an underlying event
EventLike_redact(e, because, replaces) ==
  LET red == SourceRedact(e.event[1], because, replaces)
  IN [e EXCEPT !.event = Some(red), !.time = None, !.content = red.content]

\* An applicator without the check for an underlying event
EventLike_redact_or_throw_unchecked(e, because, replaces) ==
  [thrown |-> FALSE, record |-> [e EXCEPT !.time = None, !.content = RedactedContent]]

\* EventLike::redact on any record: std::logic_error is thrown before
\* anything is assigned when the record has no underlying event
EventLike_redact_or_throw(e, because, replaces) ==
  IF e.event = None
  THEN [thrown |-> TRUE, record |-> e]
  ELSE [thrown |-> FALSE, record |-> EventLike_redact(e, because, replaces)]

----------------------------------------------------------------------------
(* Block Partitioner *)

\* *b.time - *a.time.  to_time_point adds a duration<uint64_t, std::milli> to
\* a time point, which gives an unsigned representation; Time itself is
\* declared outside this file and may keep it or be the clock's signed one.
TimeReps == {"signed", "unsigned"}
\* The unsigned count wraps at 2^64 milliseconds; the model counts minutes
\* and wraps at a power of two far above every timestamp it uses.
TimeModulus == 2^30
TimeDifference(b, a) ==
  IF time_rep = "unsigned" THEN (b - a) % TimeModulus ELSE b - a

block_border(a, b) ==
  \/ b.sender # a.sender
  \/ b.time = None
  \/ a.time = None
  \/ TimeDifference(b.time[1], a.time[1]) > BLOCK_MERGE_INTERVAL

ConfirmedEvents(batches) == Concat([i \in 1..Len(batches) |-> batches[i].events])
PendingEvents(pending) == [i \in 1..Len(pending) |-> pending[i].event]

\* The sequence rebuild_blocks walks: all batches, then the pending queue at the live edge
EventView(batches, pending, at_bottom) ==
  ConfirmedEvents(batches) \o (IF at_bottom THEN PendingEvents(pending) ELSE <<>>)

\* One pass of the loop body of rebuild_blocks over `events`, carrying
\* st = [blocks: runs closed so far, run: block_events]
RECURSIVE WalkEvents(_, _)
WalkEvents(events, st) ==
  IF events = <<>> THEN st
  ELSE LET e == Head(events)
           flush == st.run # <<>> /\ block_border(st.run[Len(st.run)], e)
       IN WalkEvents(Tail(events),
                     IF flush
                     THEN [blocks |-> Append(st.blocks, st.run), run |-> <<e>>]
                     ELSE [blocks |-> st.blocks, run |-> Append(st.run, e)])

\* A rebuild that forgets the run still open when the walk ends
BlockRuns_noflush(batches, pending, at_bottom) ==
  LET s1 == WalkEvents(ConfirmedEvents(batches), [blocks |-> <<>>, run |-> <<>>])
      s2 == IF at_bottom THEN WalkEvents(PendingEvents(pending), s1) ELSE s1
  IN s2.blocks

\* The event runs rebuild_blocks hands to the EventBlock constructor
BlockRuns(batches, pending, at_bottom) ==
  LET s1 == WalkEvents(ConfirmedEvents(batches), [blocks |-> <<>>, run |-> <<>>])
      s2 == IF at_bottom THEN WalkEvents(PendingEvents(pending), s1) ELSE s1
  IN IF s2.run # <<>> THEN Append(s2.blocks, s2.run) ELSE s2.blocks

----------------------------------------------------------------------------
(* Rendered text of a block's regions *)

REDACTED == <<"R", "E", "D", "A", "C", "T", "E", "D">>

\* tr("created the room")
CreatedTheRoom ==
  <<"c", "r", "e", "a", "t", "e", "d", " ", "t", "h", "e", " ", "r", "o", "o", "m">>

\* QString::split on line boundaries: empty parts are kept
RECURSIVE SplitLines(_, _)
SplitLines(text, cur) ==
  IF text = <<>> THEN <<cur>>
  ELSE IF Head(text) = "\n" THEN <<cur>> \o SplitLines(Tail(text), <<>>)
  ELSE SplitLines(Tail(text), Append(cur, Head(text)))

\* Event::Event, the inner switch of the case LEAVE for an event about
\* another user: what the sender did, by the target's previous membership
LeaveNarration(prev_membership, pretty_target) ==
  CASE prev_membership = "invite" -> <<"r", "e", "s", "c", "i", "n", "d", "e", "d", " ", "i", "n", "v", "i", "t", "e", " ", "t", "o", " ">> \o pretty_target
    [] prev_membership = "ban" -> <<"u", "n", "b", "a", "n", "n", "e", "d", " ">> \o pretty_target
    [] OTHER -> <<"k", "i", "c", "k", "e", "d", " ">> \o pretty_target

\* Event::Event, the branch of Member events: the narration of a membership
\* event about the sender, and about another user.  In the switch of the
\* second the case LEAVE has no break after its inner switch, so control
\* runs on into the case BAN, which assigns the text again.
MemberNarration(sender, c) ==
  LET pretty_target == IF c.displayname # None THEN c.displayname[1] ELSE <<c.user>>
  IN IF c.user = sender
     THEN CASE c.membership = "invite" -> <<"i", "n", "v", "i", "t", "e", "d", " ", "t", "h", "e", "m", "s", "e", "l", "v", "e", "s">>
            [] c.membership = "join" ->
                 (CASE c.prev_membership = "invite" -> <<"a", "c", "c", "e", "p", "t", "e", "d", " ", "i", "n", "v", "i", "t", "e">>
                    [] c.prev_membership = "join" ->
                         IF c.avatar_changed
                         THEN IF c.displayname # c.prev_displayname
                              THEN IF c.displayname # None
                                   THEN <<"c", "h", "a", "n", "g", "e", "d", " ", "a", "v", "a", "t", "a", "r", " ", "a", "n", "d", " ", "s", "e", "t", " ", "d", "i", "s", "p", "l", "a", "y", " ", "n", "a", "m", "e", " ", "t", "o", " ">>
                                        \o <<"\"">> \o c.displayname[1] \o <<"\"">>
                                   ELSE <<"c", "h", "a", "n", "g", "e", "d", " ", "a", "v", "a", "t", "a", "r", " ", "a", "n", "d", " ", "r", "e", "m", "o", "v", "e", "d", " ", "d", "i", "s", "p", "l", "a", "y", " ", "n", "a", "m", "e">>
                              ELSE <<"c", "h", "a", "n", "g", "e", "d", " ", "a", "v", "a", "t", "a", "r">>
                         ELSE IF c.displayname # c.prev_displayname
                              THEN IF c.displayname # None
                                   THEN <<"s", "e", "t", " ", "d", "i", "s", "p", "l", "a", "y", " ", "n", "a", "m", "e", " ", "t", "o", " ">>
                                        \o <<"\"">> \o c.displayname[1] \o <<"\"">>
                                   ELSE <<"r", "e", "m", "o", "v", "e", "d", " ", "d", "i", "s", "p", "l", "a", "y", " ", "n", "a", "m", "e">>
                              ELSE <<"s", "e", "n", "t", " ", "a", " ", "n", "o", "-", "o", "p", " ", "j", "o", "i", "n">>
                    [] OTHER -> <<"j", "o", "i", "n", "e", "d">>)
            [] c.membership = "leave" -> <<"l", "e", "f", "t">>
            [] c.membership = "ban" -> <<"b", "a", "n", "n", "e", "d", " ", "t", "h", "e", "m", "s", "e", "l", "v", "e", "s">>
     ELSE CASE c.membership = "invite" -> <<"i", "n", "v", "i", "t", "e", "d", " ">> \o pretty_target
            [] c.membership = "join" ->
                 IF c.prev_membership = "join"
                 THEN <<"m", "o", "d", "i", "f", "i", "e", "d", " ", "p", "r", "o", "f", "i", "l", "e", " ", "o", "f", " ">> \o pretty_target
                 ELSE <<"f", "o", "r", "c", "e", "d", " ">> \o pretty_target \o <<" ", "t", "o", " ", "j", "o", "i", "n">>
            [] c.membership = "leave" ->
                 \* the inner switch assigns text; without a break the
                 \* assignment of the case BAN follows and replaces it
                 LET text == LeaveNarration(c.prev_membership, pretty_target)
                 IN <<"b", "a", "n", "n", "e", "d", " ">> \o pretty_target
            [] c.membership = "ban" -> <<"b", "a", "n", "n", "e", "d", " ">> \o pretty_target

\* redaction_note(): what Event::Event appends to a narration once the
\* source carries a redaction
redaction_note(e, text) ==
  IF e.event # None /\ e.event[1].redacted
  THEN IF e.event[1].reason # None
       THEN text \o <<" ", "(", "r", "e", "d", "a", "c", "t", "e", "d", ":", " ">> \o e.event[1].reason[1] \o <<")">>
       ELSE text \o <<" ", "(", "r", "e", "d", "a", "c", "t", "e", "d", ")">>
  ELSE text

\* EventBlock::Event::Event: for a message the body, or REDACTED once the
\* source carries a redaction; for a membership event its narration
EventParagraphs(e) ==
  LET redaction == e.event # None /\ e.event[1].redacted
      text == IF e.type = MessageTag
              THEN IF redaction
                   THEN IF e.event[1].reason # None
                        THEN REDACTED \o <<":", " ">> \o e.event[1].reason[1]
                        ELSE REDACTED
                   ELSE e.content
              ELSE IF e.type = MemberTag
              THEN redaction_note(e, MemberNarration(e.sender, e.content))
              ELSE CreatedTheRoom
  IN SplitLines(text, <<>>)

BlockEvent(e) ==
  [id |-> e.id, time |-> e.time, source |-> e.event, paragraphs |-> EventParagraphs(e)]

Digits == <<"0", "1", "2", "3", "4", "5", "6", "7", "8", "9">>
TwoDigits(n) == <<Digits[((n \div 10) % 10) + 1], Digits[(n % 10) + 1]>>

\* to_timestamp("%H:%M", p)
to_timestamp(p) == TwoDigits((p \div 60) % 24) \o <<":">> \o TwoDigits(p % 60)

\* EventBlock::update_layout, the text of timestamp_ (the header is taken to
\* be wide enough for the range form)
TimestampText(time) ==
  IF time # None
  THEN IF time[1].end - time[1].start > BLOCK_MERGE_INTERVAL
       THEN to_timestamp(time[1].start) \o <<"-">> \o to_timestamp(time[1].end)
       ELSE to_timestamp(time[1].start)
  ELSE REDACTED

\* A block whose time pair ends where it starts
EventBlock_fronttime(events) ==
  LET front == events[1]
      time == IF front.time # None
              THEN Some([start |-> events[1].time[1], end |-> events[1].time[1]])
              ELSE None
  IN [sender_ |-> front.sender,
      time_ |-> time,
      name_ |-> <<front.sender>>,
      timestamp_ |-> TimestampText(time),
      events_ |-> [i \in 1..Len(events) |-> BlockEvent(events[i])]]

\* EventBlock::EventBlock over a non-empty run of events
EventBlock(events) ==
  LET front == events[1]
      time == IF front.time # None
              THEN Some([start |-> events[1].time[1], end |-> events[Len(events)].time[1]])
              ELSE None
  IN [sender_ |-> front.sender,
      time_ |-> time,
      name_ |-> <<front.sender>>,
      timestamp_ |-> TimestampText(time),
      events_ |-> [i \in 1..Len(events) |-> BlockEvent(events[i])]]

\* A rebuild that returns early, before the swap, when there is no event
rebuild_blocks_skipempty(batches, pending, at_bottom) ==
  IF EventView(batches, pending, at_bottom) = <<>> THEN blocks_
  ELSE LET runs == BlockRuns(batches, pending, at_bottom)
       IN [i \in 1..Len(runs) |-> EventBlock(runs[i])]

\* TimelineView::rebuild_blocks: the new value of blocks_
rebuild_blocks(batches, pending, at_bottom) ==
  LET runs == BlockRuns(batches, pending, at_bottom)
  IN [i \in 1..Len(runs) |-> EventBlock(runs[i])]

\* The identifiers of the events of the block list, block by block
BlockEventIds(blocks) ==
  Concat([i \in 1..Len(blocks) |->
            [j \in 1..Len(blocks[i].events_) |-> blocks[i].events_[j].id]])

----------------------------------------------------------------------------
(* Event Stream *)

\* lastOp: the operation, the transaction token of its event, append's local
\* existing_id, how many pending records it erased, and for redact the
\* target redaction.redacts()
Op(name, txid, existing_id, erased) ==
  [op |-> name, txid |-> txid, existing_id |-> existing_id, erased |-> erased,
   target |-> None]

NoSelection == [begin |-> None, end |-> None, mode |-> "CHARACTER"]

\* TimelineView::TimelineView
Init ==
  /\ batches_ = <<>>
  /\ pending_ = <<>>
  /\ at_bottom_ = FALSE
  /\ id_counter_ = 0
  /\ blocks_ = <<>>
  /\ selection_ = NoSelection
  /\ selection_updating_ = FALSE
  /\ click_count_ = 0
  /\ resolved = <<>>
  /\ health = "ok"
  /\ time_rep \in TimeReps
  /\ width_ = WidestWidth
  /\ visible_blocks_ = <<>>
  /\ emitted = {}
  /\ lastOp = Op("init", None, None, 0)

\* TimelineView::at_top
at_top(batches) == batches # <<>> /\ batches[1].events[1].type = CreateTag

\* TimelineView::maybe_need_backwards, maybe_need_forwards: the signal emitted
maybe_need_backwards(batches) == IF at_top(batches) THEN {} ELSE {"need_backwards"}
maybe_need_forwards(at_bottom) == IF at_bottom THEN {} ELSE {"need_forwards"}

\* A prepend that puts the record behind the ones its batch already holds
PushFront_behind(batches, begin, e) ==
  IF batches # <<>> /\ batches[1].begin = begin
  THEN [batches EXCEPT ![1].events = Append(@, e)]
  ELSE <<[begin |-> begin, events |-> <<e>>]>> \o batches

\* batches_.front().events.emplace_front(...) or batches_.emplace_front(...)
PushFront(batches, begin, e) ==
  IF batches # <<>> /\ batches[1].begin = begin
  THEN [batches EXCEPT ![1].events = <<e>> \o @]
  ELSE <<[begin |-> begin, events |-> <<e>>]>> \o batches

\* An append that opens a new batch whatever the cursor of the newest one
PushBack_newbatch(batches, begin, e) ==
  Append(batches, [begin |-> begin, events |-> <<e>>])

\* batches_.back().events.emplace_back(...) or batches_.emplace_back(...)
PushBack(batches, begin, e) ==
  IF batches # <<>> /\ batches[Len(batches)].begin = begin
  THEN [batches EXCEPT ![Len(batches)].events = Append(@, e)]
  ELSE Append(batches, [begin |-> begin, events |-> <<e>>])

\* A removal that empties the queue once the event carries a token
RemoveTransaction_clear(pending, txid) == IF txid = None THEN pending ELSE <<>>

\* std::remove_if + erase over pending_ in prepend
RemoveTransaction(pending, txid) ==
  IF txid = None THEN pending
  ELSE SelectSeq(pending, LAMBDA p : p.transaction # txid[1])

\* A search that keeps the last match instead of stopping at the first
FindPending_last(pending, t) ==
  IF \E i \in 1..Len(pending) : pending[i].transaction = t
  THEN CHOOSE i \in 1..Len(pending) :
         /\ pending[i].transaction = t
         /\ \A j \in (i + 1)..Len(pending) : pending[j].transaction # t
  ELSE Len(pending) + 1

\* The search loop of append: the index of the first pending record with the
\* token, Len(pending) + 1 (pending_.cend()) when there is none
FindPending(pending, t) ==
  IF \E i \in 1..Len(pending) : pending[i].transaction = t
  THEN CHOOSE i \in 1..Len(pending) :
         /\ pending[i].transaction = t
         /\ \A j \in 1..(i - 1) : pending[j].transaction # t
  ELSE Len(pending) + 1

\* What reading it->event.id and calling pending_.erase(it) can produce when
\* it == pending_.cend(): the read yields an arbitrary identifier, the erase
\* leaves the queue alone or pops its last element.  (The third outcome, the
\* process dying, is the crash branch of append.)
EndIteratorOutcomes(pending, counter) ==
  { [id |-> g, pending |-> q] :
      g \in {0, counter},
      q \in {pending} \cup (IF pending = <<>> THEN {} ELSE {SubSeq(pending, 1, Len(pending) - 1)}) }

prepend(begin, evt) ==
  /\ health = "ok"
  /\ UNCHANGED <<time_rep, width_, visible_blocks_>>
  /\ id_counter_ < MaxId
  /\ id_counter_' = id_counter_ + 1
  /\ batches_' = PushFront(batches_, begin, EventLike(id_counter_, evt))
  /\ pending_' = RemoveTransaction(pending_, evt.txid)
  /\ blocks_' = rebuild_blocks(batches_', pending_', at_bottom_)
  /\ emitted' = maybe_need_backwards(batches_')
  /\ lastOp' = Op("prepend", evt.txid, None, Len(pending_) - Len(pending_'))
  /\ UNCHANGED <<at_bottom_, selection_,
               selection_updating_, click_count_, resolved, health>>

\* The tail of append once existing_id and the new pending queue are known
\* An append that always takes a new identifier
AppendId_fresh(existing_id, counter) == [id |-> counter, counter |-> counter + 1]

\* const auto id = existing_id ? *existing_id : get_id();  the identifier of
\* the new record and the new value of id_counter_
AppendId(existing_id, counter) ==
  IF existing_id # None
  THEN [id |-> existing_id[1], counter |-> counter]
  ELSE [id |-> counter, counter |-> counter + 1]

AppendWith(begin, evt, existing_id, pending, outcome) ==
  LET id == AppendId(existing_id, id_counter_).id
  IN /\ id_counter_' = AppendId(existing_id, id_counter_).counter
     /\ batches_' = PushBack(batches_, begin, EventLike(id, evt))
     /\ pending_' = pending
     /\ blocks_' = rebuild_blocks(batches_', pending_', at_bottom_)
     /\ emitted' = maybe_need_forwards(at_bottom_)
     /\ lastOp' = Op("append", evt.txid, existing_id, Len(pending_) - Len(pending))
     /\ health' = outcome
     /\ UNCHANGED <<at_bottom_, selection_,
               selection_updating_, click_count_, resolved>>

append(begin, evt) ==
  /\ health = "ok"
  /\ UNCHANGED <<time_rep, width_, visible_blocks_>>
  /\ IF evt.txid = None
     THEN /\ id_counter_ < MaxId
          /\ AppendWith(begin, evt, None, pending_, "ok")
     ELSE LET it == FindPending(pending_, evt.txid[1])
          IN IF it <= Len(pending_)
             THEN AppendWith(begin, evt, Some(pending_[it].event.id), RemoveAt(pending_, it), "ok")
             ELSE \* it == pending_.cend(): undefined behaviour
                  \/ /\ health' = "crashed"
                     /\ emitted' = {}
                     /\ lastOp' = Op("append", evt.txid, None, 0)
                     /\ UNCHANGED <<batches_, pending_, at_bottom_, id_counter_,
                                    blocks_, selection_, selection_updating_,
                                   click_count_, resolved>>
                  \/ \E o \in EndIteratorOutcomes(pending_, id_counter_) :
                       AppendWith(begin, evt, Some(o.id), o.pending, "undefined")

\* A scan that redacts every record of the batch with the target identifier
RECURSIVE RedactFirst_all(_, _, _, _)
RedactFirst_all(events, target, because, replaces) ==
  IF events = <<>> THEN <<>>
  ELSE (IF Head(events).event[1].id = target
        THEN <<EventLike_redact(Head(events), because, replaces)>>
        ELSE <<Head(events)>>) \o RedactFirst_all(Tail(events), target, because, replaces)

\* A redact that falls back on the oldest record when nothing matches
RedactBatches_fallback(batches, target, because, replaces) ==
  IF batches = <<>> THEN <<>>
  ELSE [batches EXCEPT ![1].events[1] = EventLike_redact(@, because, replaces)]

\* The scan of redact: the batches with the first record whose source has
\* the target identifier redacted
RECURSIVE RedactFirst(_, _, _, _)
RedactFirst(events, target, because, replaces) ==
  IF events = <<>> THEN <<>>
  ELSE IF Head(events).event[1].id = target
       THEN <<EventLike_redact(Head(events), because, replaces)>> \o Tail(events)
       ELSE <<Head(events)>> \o RedactFirst(Tail(events), target, because, replaces)

RECURSIVE RedactBatches(_, _, _, _)
RedactBatches(batches, target, because, replaces) ==
  IF batches = <<>> THEN <<>>
  ELSE IF \E i \in 1..Len(Head(batches).events) : Head(batches).events[i].event[1].id = target
       THEN <<[Head(batches) EXCEPT !.events = RedactFirst(@, target, because, replaces)]>>
              \o Tail(batches)
       ELSE <<Head(batches)>> \o RedactBatches(Tail(batches), target, because, replaces)

\* redact of a redaction with redacts() = target and the reason because
redact(target, because, replaces) ==
  /\ health = "ok"
  /\ UNCHANGED <<time_rep, width_, visible_blocks_>>
  /\ batches_' = RedactBatches(batches_, target, because, replaces)
  /\ blocks_' = rebuild_blocks(batches_', pending_, at_bottom_)
  /\ emitted' = maybe_need_forwards(at_bottom_) \cup maybe_need_backwards(batches_')
  /\ lastOp' = [Op("redact", None, None, 0) EXCEPT !.target = Some(target)]
  /\ UNCHANGED <<pending_, at_bottom_, id_counter_, selection_,
               selection_updating_, click_count_, resolved, health>>

add_pending(transaction, time, content) ==
  /\ health = "ok"
  /\ UNCHANGED <<time_rep, width_, visible_blocks_>>
  /\ id_counter_ < MaxId
  /\ id_counter_' = id_counter_ + 1
  /\ pending_' = Append(pending_, [transaction |-> transaction,
                                   event |-> EventLikeFake(id_counter_, Self, time, content)])
  /\ blocks_' = rebuild_blocks(batches_, pending_', at_bottom_)
  /\ emitted' = {}
  /\ lastOp' = Op("add_pending", Some(transaction), None, 0)
  /\ UNCHANGED <<batches_, at_bottom_, selection_,
               selection_updating_, click_count_, resolved, health>>

set_at_bottom(value) ==
  /\ health = "ok"
  /\ UNCHANGED <<time_rep, width_, visible_blocks_>>
  /\ at_bottom_' = value
  /\ emitted' = {}
  /\ lastOp' = Op("set_at_bottom", None, None, 0)
  /\ UNCHANGED <<batches_, pending_, id_counter_, blocks_, selection_,
               selection_updating_, click_count_, resolved, health>>

\* The operations of the stream, with their arguments drawn from `in`
StreamNext(in) ==
  \/ \E begin \in in.cursors, evt \in in.raw : prepend(begin, evt)
  \/ \E begin \in in.cursors, evt \in in.raw : append(begin, evt)
  \/ \E target \in in.targets, because \in in.reasons, replaces \in BOOLEAN :
       redact(target, because, replaces)
  \/ \E t \in in.txs, time \in in.times, content \in in.bodies : add_pending(t, time, content)
  \/ \E value \in BOOLEAN : set_at_bottom(value)

NextDedup == StreamNext(DedupInputs)
SpecDedup == Init /\ [][NextDedup]_vars

NextBlocks == StreamNext(BlockInputs)
SpecBlocks == Init /\ [][NextBlocks]_vars

\* With inputs of one timestamp every time difference is zero, whatever the
\* representation of Time
InitOneTime == Init /\ time_rep = "signed"

NextRedact == StreamNext(RedactInputs)
SpecRedact == InitOneTime /\ [][NextRedact]_vars

NextOrder == StreamNext(OrderInputs)
SpecOrder == InitOneTime /\ [][NextOrder]_vars

NextSignals == StreamNext(SignalInputs)
SpecSignals == InitOneTime /\ [][NextSignals]_vars

\* Membership events arriving at either end of the timeline
NextMember ==
  \/ \E begin \in MemberInputs.cursors, evt \in MemberInputs.raw : prepend(begin, evt)
  \/ \E begin \in MemberInputs.cursors, evt \in MemberInputs.raw : append(begin, evt)

SpecMember == InitOneTime /\ [][NextMember]_vars

----------------------------------------------------------------------------
(* Cursor & Selection Algebra, Selection Resolver *)

\* Cursor{type, event, pos} and Cursor{event, paragraph, pos}
Cursor(type, event, paragraph, pos) ==
  [type |-> type, event |-> event, paragraph |-> paragraph, pos |-> pos]

\* The regions of one block in the order EventBlock::draw and
\* EventBlock::selection_text visit them: events last to first, paragraphs
\* last to first, then the timestamp and the name of the block's front event
BlockRegions(block) ==
  LET events == Reverse(block.events_)
      body == Concat([i \in 1..Len(events) |->
                Reverse([j \in 1..Len(events[i].paragraphs) |->
                  [id |-> events[i].id, type |-> "BODY", paragraph |-> j - 1,
                   text |-> events[i].paragraphs[j]]])])
      front == block.events_[1]
  IN body \o
     << [id |-> front.id, type |-> "TIMESTAMP", paragraph |-> 0, text |-> block.timestamp_],
        [id |-> front.id, type |-> "NAME", paragraph |-> 0, text |-> block.name_] >>

\* All regions in the order TimelineView::selection_text visits them: blocks
\* last to first
Regions(blocks) ==
  LET rev == Reverse(blocks)
  IN Concat([i \in 1..Len(rev) |-> BlockRegions(rev[i])])

cursor_in(c, id, type, paragraph) ==
  c.event = id /\ c.type = type /\ c.paragraph = paragraph

Min(a, b) == IF a < b THEN a ELSE b
Max(a, b) == IF a > b THEN a ELSE b

WhiteSpace == {" ", "\n"}
WordSeparators == {":", "-", ".", ","}
whiteSpace(text, i) == text[i + 1] \in WhiteSpace
atWordSeparator(text, i) == text[i + 1] \in WordSeparators

\* QTextLayout::nextCursorPosition(oldPos, SkipWords) over `text`
RECURSIVE SkipForward(_, _, _)
SkipForward(text, pos, kind) ==
  IF pos < Len(text) /\
     (CASE kind = "separator" -> atWordSeparator(text, pos)
        [] kind = "word" -> ~whiteSpace(text, pos) /\ ~atWordSeparator(text, pos)
        [] OTHER -> whiteSpace(text, pos))
  THEN SkipForward(text, pos + 1, kind)
  ELSE pos

nextCursorPosition(text, oldPos) ==
  IF oldPos < 0 \/ oldPos >= Len(text) THEN oldPos
  ELSE SkipForward(text,
         IF atWordSeparator(text, oldPos)
         THEN SkipForward(text, oldPos + 1, "separator")
         ELSE SkipForward(text, oldPos, "word"),
         "space")

\* QTextLayout::previousCursorPosition(oldPos, SkipWords) over `text`
RECURSIVE SkipBackward(_, _, _)
SkipBackward(text, pos, kind) ==
  IF pos > 0 /\
     (CASE kind = "separator" -> atWordSeparator(text, pos - 1)
        [] kind = "word" -> ~whiteSpace(text, pos - 1) /\ ~atWordSeparator(text, pos - 1)
        [] OTHER -> whiteSpace(text, pos - 1))
  THEN SkipBackward(text, pos - 1, kind)
  ELSE pos

previousCursorPosition(text, oldPos) ==
  IF oldPos <= 0 \/ oldPos > Len(text) THEN oldPos
  ELSE LET p == SkipBackward(text, oldPos, "space")
       IN IF p > 0 /\ atWordSeparator(text, p - 1)
          THEN SkipBackward(text, p - 1, "separator")
          ELSE SkipBackward(text, p, "word")

Result(continues, start, length) ==
  [continues |-> continues, affected |-> [start |-> start, length |-> length]]

\* A resolver that lets the highlight run on above the upper endpoint
EndpointRange_runon(id, type, text, bottom_selected, selection, paragraph) ==
  LET begin_applies == cursor_in(selection.begin, id, type, paragraph)
      end_applies == cursor_in(selection.end, id, type, paragraph)
      endpoint == (IF begin_applies THEN selection.begin ELSE selection.end).pos
  IN IF begin_applies /\ end_applies
     THEN Some(Result(FALSE,
                      Min(selection.begin.pos, selection.end.pos),
                      Max(selection.begin.pos, selection.end.pos)
                        - Min(selection.begin.pos, selection.end.pos)))
     ELSE IF begin_applies \/ end_applies
     THEN IF bottom_selected
          THEN Some(Result(TRUE, Max(0, endpoint), Len(text) - Max(0, endpoint)))
          ELSE Some(Result(TRUE, 0, Min(Len(text), endpoint)))
     ELSE IF bottom_selected
     THEN Some(Result(TRUE, 0, Len(text)))
     ELSE None

\* A resolver that takes the larger offset for the length of a selection
\* inside one region
EndpointRange_absolute(id, type, text, bottom_selected, selection, paragraph) ==
  LET begin_applies == cursor_in(selection.begin, id, type, paragraph)
      end_applies == cursor_in(selection.end, id, type, paragraph)
      endpoint == (IF begin_applies THEN selection.begin ELSE selection.end).pos
  IN IF begin_applies /\ end_applies
     THEN Some(Result(FALSE,
                      Min(selection.begin.pos, selection.end.pos),
                      Max(selection.begin.pos, selection.end.pos)))
     ELSE IF begin_applies \/ end_applies
     THEN IF bottom_selected
          THEN Some(Result(FALSE, Max(0, endpoint), Len(text) - Max(0, endpoint)))
          ELSE Some(Result(TRUE, 0, Min(Len(text), endpoint)))
     ELSE IF bottom_selected
     THEN Some(Result(TRUE, 0, Len(text)))
     ELSE None

\* selection_for before the mode switch: the range the endpoints and the
\* flag from below give this region, if any
EndpointRange(id, type, text, bottom_selected, selection, paragraph) ==
  LET begin_applies == cursor_in(selection.begin, id, type, paragraph)
      end_applies == cursor_in(selection.end, id, type, paragraph)
      endpoint == (IF begin_applies THEN selection.begin ELSE selection.end).pos
  IN IF begin_applies /\ end_applies
     THEN Some(Result(FALSE,
                      Min(selection.begin.pos, selection.end.pos),
                      Max(selection.begin.pos, selection.end.pos)
                        - Min(selection.begin.pos, selection.end.pos)))
     ELSE IF begin_applies \/ end_applies
     THEN IF bottom_selected
          THEN Some(Result(FALSE, Max(0, endpoint), Len(text) - Max(0, endpoint)))
          ELSE Some(Result(TRUE, 0, Min(Len(text), endpoint)))
     ELSE IF bottom_selected
     THEN Some(Result(TRUE, 0, Len(text)))
     ELSE None

\* case Selection::Mode::WORD
WordAdjust(affected, text) ==
  [start |-> previousCursorPosition(text, affected.start),
   length |-> nextCursorPosition(text, affected.start + affected.length)]

\* A PARAGRAPH mode that keeps the computed bounds
ParagraphAdjust_keep(affected, text) == affected

\* case Selection::Mode::PARAGRAPH
ParagraphAdjust(affected, text) == [start |-> 0, length |-> Len(text)]

\* The switch over selection.mode at the end of selection_for
ModeAdjust(mode, affected, text) ==
  CASE mode = "CHARACTER" -> affected
    [] mode = "WORD" -> WordAdjust(affected, text)
    [] mode = "PARAGRAPH" -> ParagraphAdjust(affected, text)

selection_for(id, type, text, bottom_selected, selection, paragraph) ==
  LET result == EndpointRange(id, type, text, bottom_selected, selection, paragraph)
  IN IF result # None
     THEN Some([result[1] EXCEPT !.affected = ModeAdjust(selection.mode, @, text)])
     ELSE None

\* A sweep in which the flag, once true, stays true
RECURSIVE ResolveRegions_sticky(_, _, _)
ResolveRegions_sticky(regions, bottom_selected, selection) ==
  IF regions = <<>> THEN <<>>
  ELSE LET r == Head(regions)
           s == selection_for(r.id, r.type, r.text, bottom_selected, selection, r.paragraph)
       IN <<s>> \o ResolveRegions_sticky(Tail(regions),
                                         bottom_selected \/ (s # None /\ s[1].continues),
                                         selection)

\* The sweep of TimelineView::selection_text and EventBlock::selection_text:
\* region by region, the flag of a resolved region handed to the next one
RECURSIVE ResolveRegions(_, _, _)
ResolveRegions(regions, bottom_selected, selection) ==
  IF regions = <<>> THEN <<>>
  ELSE LET r == Head(regions)
           s == selection_for(r.id, r.type, r.text, bottom_selected, selection, r.paragraph)
       IN <<s>> \o ResolveRegions(Tail(regions),
                                  IF s # None THEN s[1].continues ELSE bottom_selected,
                                  selection)

\* TimelineView::selection_text: what each region contributes, bottom to top
selection_text(blocks, selection) == ResolveRegions(Regions(blocks), FALSE, selection)

\* The cursors EventBlock::get_cursor can return for the blocks: a region of
\* a block and an offset into its text
CursorsAt(blocks) ==
  LET regions == Regions(blocks)
  IN UNION { { Cursor(regions[k].type, regions[k].id, regions[k].paragraph, pos) :
               pos \in 0..Len(regions[k].text) } : k \in 1..Len(regions) }

\* constexpr Selection::Mode selection_modes[]
selection_modes == <<"CHARACTER", "WORD", "PARAGRAPH">>

\* A press of the left button that no child input handler accepted, at a
\* point get_cursor resolves to the cursor; in_interval: it came within the
\* double-click interval of the press before.  Counts above 2 select the
\* mode 2 selects, so the count is kept up to 2.
mousePressEvent(cursor, in_interval) ==
  /\ health = "ok"
  /\ UNCHANGED <<time_rep, width_, visible_blocks_>>
  /\ click_count_' = IF in_interval THEN Min(2, click_count_ + 1) ELSE 0
  /\ selection_' = [begin |-> cursor, end |-> cursor,
                    mode |-> selection_modes[Min(2, click_count_') + 1]]
  /\ selection_updating_' = TRUE
  /\ resolved' = <<>>
  /\ emitted' = {}
  /\ lastOp' = Op("mousePressEvent", None, None, 0)
  /\ UNCHANGED <<batches_, pending_, at_bottom_, id_counter_, blocks_, health>>

\* A move with the left button held, at a point get_cursor resolves to new_end
mouseMoveEvent(new_end) ==
  /\ health = "ok"
  /\ UNCHANGED <<time_rep, width_, visible_blocks_>>
  /\ selection_updating_
  /\ selection_' = [selection_ EXCEPT !.end = new_end]
  /\ resolved' = selection_text(blocks_, selection_')
  /\ emitted' = {}
  /\ lastOp' = Op("mouseMoveEvent", None, None, 0)
  /\ UNCHANGED <<batches_, pending_, at_bottom_, id_counter_, blocks_,
                 selection_updating_, click_count_, health>>

\* A release of the left button
mouseReleaseEvent ==
  /\ health = "ok"
  /\ UNCHANGED <<time_rep, width_, visible_blocks_>>
  /\ selection_updating_' = FALSE
  /\ UNCHANGED <<batches_, pending_, at_bottom_, id_counter_, blocks_, selection_,
                 click_count_, resolved, health, emitted, lastOp>>

\* copy() const: resolves the selection for the clipboard and changes nothing
\* of the view.  Without a selection no region is addressed.
copy ==
  /\ health = "ok"
  /\ UNCHANGED <<time_rep, width_, visible_blocks_>>
  /\ selection_ # NoSelection
  /\ resolved' = selection_text(blocks_, selection_)
  /\ UNCHANGED <<batches_, pending_, at_bottom_, id_counter_, blocks_, selection_,
                 selection_updating_, click_count_, health, emitted, lastOp>>

MaxSelEvents == 2

SelBody == <<"a", "b", "\n", "c">>

\* A timeline of one batch of up to MaxSelEvents confirmed messages, laid out
InitSel ==
  \E n \in 1..MaxSelEvents :
    \E senders \in {f \in [1..n -> {"A", "B"}] : f[1] = "A"} :
      /\ batches_ = << [begin |-> "c1",
                        events |-> [i \in 1..n |->
                          EventLike(i - 1, [id |-> "e1", sender |-> senders[i],
                                            origin_server_ts |-> 0, txid |-> None,
                                            type |-> MessageTag, content |-> SelBody,
                                            redacted |-> FALSE, reason |-> None])]] >>
      /\ time_rep = "signed"  \* all timestamps are equal: either representation does the same
      /\ width_ = WidestWidth
      /\ visible_blocks_ = <<>>
      /\ pending_ = <<>>
      /\ at_bottom_ = FALSE
      /\ id_counter_ = n
      /\ blocks_ = rebuild_blocks(batches_, pending_, at_bottom_)
      /\ selection_ = NoSelection
      /\ selection_updating_ = FALSE
      /\ click_count_ = 0
      /\ resolved = <<>>
      /\ health = "ok"
      /\ emitted = {}
      /\ lastOp = Op("init", None, None, 0)

NextSel ==
  \/ \E cursor \in CursorsAt(blocks_), in_interval \in BOOLEAN :
       mousePressEvent(cursor, in_interval)
  \/ \E new_end \in CursorsAt(blocks_) : mouseMoveEvent(new_end)
  \/ mouseReleaseEvent
  \/ copy

SpecSel == InitSel /\ [][NextSel]_vars

\* A message longer than the text REDACTED that replaces it
LongBody == <<"a", "b", "c", "d", "e", "f", "g", "h", "i">>

\* A timeline of one batch of two confirmed messages of one sender: the
\* first long, the second short, and a redaction can name the first
InitRedactSel ==
  /\ batches_ = << [begin |-> "c1",
                    events |-> << EventLike(0, [id |-> "e1", sender |-> "A",
                                                origin_server_ts |-> 0, txid |-> None,
                                                type |-> MessageTag, content |-> LongBody,
                                                redacted |-> FALSE, reason |-> None]),
                                  EventLike(1, [id |-> "e2", sender |-> "A",
                                                origin_server_ts |-> 0, txid |-> None,
                                                type |-> MessageTag, content |-> <<"a">>,
                                                redacted |-> FALSE, reason |-> None]) >>] >>
  /\ time_rep = "signed"
  /\ width_ = WidestWidth
  /\ visible_blocks_ = <<>>
  /\ pending_ = <<>>
  /\ at_bottom_ = FALSE
  /\ id_counter_ = 2
  /\ blocks_ = rebuild_blocks(batches_, pending_, at_bottom_)
  /\ selection_ = NoSelection
  /\ selection_updating_ = FALSE
  /\ click_count_ = 0
  /\ resolved = <<>>
  /\ health = "ok"
  /\ emitted = {}
  /\ lastOp = Op("init", None, None, 0)

\* The selection handlers, and redactions of the first message arriving
\* while a selection is held
NextRedactSel ==
  \/ NextSel
  \/ \E replaces \in BOOLEAN : redact("e1", None, replaces)

SpecRedactSel == InitRedactSel /\ [][NextRedactSel]_vars

----------------------------------------------------------------------------
(* Text layout and Hit Tester *)

\* parent_.fontMetrics() in whole units: the line spacing and the height of a
\* line (no leading), the advance of a character, and the offset
\* avatar_extent() + horizontal_padding() of the first two lines of a block
FontMetrics == [lineSpacing |-> 2, charWidth |-> 2, early_offset |-> 4]

\* HitBody: a first line that wraps at both widths, and a second paragraph
HitBody == <<"a", "b", "c", "d", "e", "f", "g", "h", "\n", "i">>

Point(x, y) == [x |-> x, y |-> y]

\* The createLine loops of update_layout over one QTextLayout, starting at
\* text position `start` with `lines` lines laid out above: a line takes as
\* many characters as fit its width (the texts have no word boundary to
\* wrap at), one at least.  left: where the line's natural text starts.
RECURSIVE CreateLines(_, _, _, _)
CreateLines(text, start, lines, width) ==
  LET offset == IF lines < 2 THEN FontMetrics.early_offset ELSE 0
      fit == (width - offset) \div FontMetrics.charWidth
      len == Min(Max(1, fit), Len(text) - start)
      line == [top |-> lines * FontMetrics.lineSpacing, x |-> offset, width |-> width - offset,
               left |-> offset, start |-> start, len |-> len]
  IN IF start + len >= Len(text) THEN <<line>>
     ELSE <<line>> \o CreateLines(text, start + len, lines + 1, width)

naturalTextWidth(line) == line.len * FontMetrics.charWidth

\* QTextLine::rect(): the line's position, width and height
rect(line) ==
  [left |-> line.x, right |-> line.x + line.width,
   top |-> line.top, bottom |-> line.top + FontMetrics.lineSpacing]

\* QTextLine::naturalTextRect(): the rectangle of the text, alignment applied
naturalTextRect(line) ==
  [left |-> line.left, right |-> line.left + naturalTextWidth(line),
   top |-> line.top, bottom |-> line.top + FontMetrics.lineSpacing]

\* QTextLayout::boundingRect().bottom()
boundingBottom(lines) == rect(lines[Len(lines)]).bottom

\* The paragraphs of a block in layout order, each with its owning event
BlockParagraphs(block) ==
  Concat([i \in 1..Len(block.events_) |->
            [j \in 1..Len(block.events_[i].paragraphs) |->
               [id |-> block.events_[i].id, paragraph |-> j - 1,
                text |-> block.events_[i].paragraphs[j]]]])

\* The loop over events_ and their paragraphs at the end of update_layout
RECURSIVE LayoutParagraphs(_, _, _)
LayoutParagraphs(paragraphs, lines, width) ==
  IF paragraphs = <<>> THEN <<>>
  ELSE LET laid == CreateLines(Head(paragraphs).text, 0, lines, width)
       IN <<[id |-> Head(paragraphs).id, paragraph |-> Head(paragraphs).paragraph,
             lines |-> laid]>>
          \o LayoutParagraphs(Tail(paragraphs), lines + Len(laid), width)

\* EventBlock::update_layout(width): the lines of name_, of timestamp_ (none
\* when layout_ts clears it because it does not fit beside the name) and of
\* the paragraphs.  The timestamp is one right-aligned line that is not wrapped.
update_layout(block, width) ==
  LET name == CreateLines(block.name_, 0, 0, width)
      ts_width == Len(block.timestamp_) * FontMetrics.charWidth
      ts_line == [top |-> 0, x |-> FontMetrics.early_offset,
                  width |-> width - FontMetrics.early_offset,
                  left |-> width - ts_width, start |-> 0, len |-> Len(block.timestamp_)]
      fits == ~(naturalTextWidth(name[1]) + FontMetrics.early_offset > width - ts_width)
  IN [name |-> name,
      timestamp |-> IF fits THEN <<ts_line>> ELSE <<>>,
      paragraphs |-> LayoutParagraphs(BlockParagraphs(block), Len(name), width)]

\* QTextLine::xToCursor(x): the cursor position of the line nearest to x
xToCursor(line, x) ==
  line.start
    + Max(0, Min(line.len,
                 (x - line.left + FontMetrics.charWidth \div 2) \div FontMetrics.charWidth))

\* A cursor_near that falls back on the nearest line also in exact mode
RECURSIVE cursor_near_clamping(_, _, _, _)
cursor_near_clamping(lines, i, p, exact) ==
  IF i > Len(lines)
  THEN Some(xToCursor(lines[Len(lines)], rect(lines[Len(lines)]).right))
  ELSE IF p.y < rect(lines[i]).top
  THEN Some(xToCursor(lines[i], rect(lines[i]).left))
  ELSE IF p.y >= rect(lines[i]).top /\ p.y <= rect(lines[i]).bottom
  THEN Some(xToCursor(lines[i], p.x))
  ELSE cursor_near_clamping(lines, i + 1, p, exact)

\* cursor_near(layout, p, exact), from line i of the layout on
RECURSIVE cursor_near(_, _, _, _)
cursor_near(lines, i, p, exact) ==
  IF i > Len(lines)
  THEN IF exact THEN None
       ELSE Some(xToCursor(lines[Len(lines)], rect(lines[Len(lines)]).right))
  ELSE IF p.y < rect(lines[i]).top
  THEN IF exact THEN None ELSE Some(xToCursor(lines[i], rect(lines[i]).left))
  ELSE IF p.y >= rect(lines[i]).top /\ p.y <= rect(lines[i]).bottom
  THEN IF exact /\ (p.x < lines[i].x \/ p.x > lines[i].x + naturalTextWidth(lines[i]))
       THEN None
       ELSE Some(xToCursor(lines[i], p.x))
  ELSE cursor_near(lines, i + 1, p, exact)

\* The header zone of EventBlock::get_cursor
HeaderCursor(block, layout, point, exact) ==
  IF point.y < boundingBottom(layout.name)
  THEN IF /\ layout.timestamp # <<>>
          /\ point.x > naturalTextRect(layout.timestamp[1]).left
          /\ point.y > naturalTextRect(layout.timestamp[1]).top
          /\ point.y < naturalTextRect(layout.timestamp[1]).bottom
       THEN Some(Cursor("TIMESTAMP", block.events_[1].id, 0,
                        xToCursor(layout.timestamp[1], point.x)))
       ELSE LET c == cursor_near(layout.name, 1, point, exact)
            IN IF c # None THEN Some(Cursor("NAME", block.events_[1].id, 0, c[1])) ELSE None
  ELSE None

\* The loop of EventBlock::get_cursor over the paragraphs, from the i-th on
RECURSIVE BodyCursor(_, _, _, _)
BodyCursor(paragraphs, i, point, exact) ==
  IF i > Len(paragraphs)
  THEN IF exact THEN None
       ELSE LET last == paragraphs[Len(paragraphs)]
                line == last.lines[Len(last.lines)]
            IN Some(Cursor("BODY", last.id, last.paragraph, xToCursor(line, line.x + line.width)))
  ELSE LET c == IF point.y <= boundingBottom(paragraphs[i].lines)
                THEN cursor_near(paragraphs[i].lines, 1, point, exact)
                ELSE None
       IN IF c # None
          THEN Some(Cursor("BODY", paragraphs[i].id, paragraphs[i].paragraph, c[1]))
          ELSE BodyCursor(paragraphs, i + 1, point, exact)

\* EventBlock::get_cursor(point, exact) on the block as laid out (no text of
\* the model carries a link: the href of the result is always empty)
get_cursor(block, layout, point, exact) ==
  LET header == HeaderCursor(block, layout, point, exact)
  IN IF header # None THEN header ELSE BodyCursor(layout.paragraphs, 1, point, exact)

\* The points of a block laid out: from its left to its right edge, and from
\* its top to below its last line
PointsOf(layout, width) ==
  LET last == layout.paragraphs[Len(layout.paragraphs)]
  IN {Point(x, y) : x \in 0..width, y \in 0..(boundingBottom(last.lines) + 1)}

\* EventBlock::handle_input for a QEvent::MouseMove at a point of block b:
\* the exact query decides the shape of the pointer
handle_input(b, point) ==
  /\ health = "ok"
  /\ lastOp' = [op |-> "handle_input", txid |-> None, existing_id |-> None, erased |-> 0,
                target |-> None, block |-> b, point |-> point,
                cursor |-> get_cursor(blocks_[b], update_layout(blocks_[b], width_), point, TRUE)]
  /\ emitted' = {}
  /\ UNCHANGED <<batches_, pending_, at_bottom_, id_counter_, blocks_, selection_,
                 selection_updating_, click_count_, resolved, time_rep, width_,
                 visible_blocks_, health>>

\* TimelineView::resizeEvent: the blocks are laid out to the new width
resizeEvent(width) ==
  /\ health = "ok"
  /\ width_' = width
  /\ emitted' = {}
  /\ lastOp' = Op("resizeEvent", None, None, 0)
  /\ UNCHANGED <<batches_, pending_, at_bottom_, id_counter_, blocks_, selection_,
                 selection_updating_, click_count_, resolved, time_rep,
                 visible_blocks_, health>>

\* A timeline of one batch of up to MaxSelEvents confirmed messages
InitHit ==
  \E n \in 1..MaxSelEvents :
    \E senders \in {f \in [1..n -> {"A", "B"}] : f[1] = "A"} :
      /\ batches_ = << [begin |-> "c1",
                        events |-> [i \in 1..n |->
                          EventLike(i - 1, [id |-> "e1", sender |-> senders[i],
                                            origin_server_ts |-> 0, txid |-> None,
                                            type |-> MessageTag, content |-> HitBody,
                                            redacted |-> FALSE, reason |-> None])]] >>
      /\ time_rep = "signed"
      /\ width_ \in Widths
      /\ visible_blocks_ = <<>>
      /\ pending_ = <<>>
      /\ at_bottom_ = FALSE
      /\ id_counter_ = n
      /\ blocks_ = rebuild_blocks(batches_, pending_, at_bottom_)
      /\ selection_ = NoSelection
      /\ selection_updating_ = FALSE
      /\ click_count_ = 0
      /\ resolved = <<>>
      /\ health = "ok"
      /\ emitted = {}
      /\ lastOp = Op("init", None, None, 0)

NextHit ==
  \/ \E b \in 1..Len(blocks_) :
       \E point \in PointsOf(update_layout(blocks_[b], width_), width_) : handle_input(b, point)
  \/ \E width \in Widths : resizeEvent(width)

SpecHit == InitHit /\ [][NextHit]_vars

----------------------------------------------------------------------------
(* Painting and the view's cursor query *)

\* block_spacing, block_padding: std::round of 0.75 and 0.33 line spacings
block_spacing == (FontMetrics.lineSpacing * 75 + 50) \div 100
block_padding == (FontMetrics.lineSpacing * 33 + 50) \div 100

\* EventBlock::avatar_extent: early_offset less horizontal_padding(), which
\* is the same rounding as block_padding; m.ascent() is what is left of it
\* above one line spacing
avatar_extent == FontMetrics.early_offset - block_padding
ascent == avatar_extent - FontMetrics.lineSpacing

\* The number of lines of a block laid out: name_.lineCount() and the
\* lineCount() of every paragraph
LineCount(layout) ==
  Len(layout.name)
    + Len(Concat([i \in 1..Len(layout.paragraphs) |-> layout.paragraphs[i].lines]))

\* EventBlock::bounds(): as wide as the name's line reaches, and as high as
\* the avatar or as all lines but the last plus the ascent of the last
bounds(block, width) ==
  [left |-> 0, top |-> 0, right |-> width,
   bottom |-> Max(avatar_extent,
                  (Max(2, LineCount(update_layout(block, width))) - 1) * FontMetrics.lineSpacing
                    + ascent)]

\* QRectF::translated
translated(r, p) ==
  [left |-> r.left + p.x, right |-> r.right + p.x, top |-> r.top + p.y, bottom |-> r.bottom + p.y]

\* TimelineView::VisibleBlock::bounds(): the block's bounds moved to its origin
VisibleBlock_bounds(blocks, vb, width) == translated(bounds(blocks[vb.block], width), vb.origin)

\* The origins paintEvent gives the blocks k..last when the outline of block
\* k begins at y: each outline is the block's height and one block spacing
\* high, the block is drawn half a spacing below the outline's top
RECURSIVE Origins(_, _, _, _, _)
Origins(blocks, k, last, y, width) ==
  IF k > last THEN <<>>
  ELSE <<[block |-> k, origin |-> Point(block_padding, y + (block_spacing + 1) \div 2)]>>
       \o Origins(blocks, k + 1, last, y + block_spacing + bounds(blocks[k], width).bottom, width)

\* visible_blocks_ as the loop of paintEvent fills it, from the lowest block
\* drawn to the highest; the view is scrolled so that one unit of the
\* highest block's outline lies above the viewport
VisibleBlocks(blocks, first, last, width) == Reverse(Origins(blocks, first, last, -1, width))

\* TimelineView::paintEvent with the view scrolled so that the blocks
\* first..last are drawn: the blocks below the view are skipped, each block
\* drawn hands its flag to the one above, the loop ends at the first block
\* that reaches above the view.  Each EventBlock::draw resolves the block's
\* regions in the order of BlockRegions.  lastOp keeps the window and the
\* highlights drawn, bottom to top.
paintEvent(first, last) ==
  /\ health = "ok"
  /\ visible_blocks_' = VisibleBlocks(blocks_, first, last, width_)
  /\ LET drawn == Regions(SubSeq(blocks_, first, last))
     IN lastOp' = [op |-> "paintEvent", txid |-> None, existing_id |-> None, erased |-> 0,
                   target |-> None, first |-> first, last |-> last,
                   painted |-> IF selection_ = NoSelection
                               THEN [k \in 1..Len(drawn) |-> None]
                               ELSE ResolveRegions(drawn, FALSE, selection_)]
  /\ emitted' = {}
  /\ UNCHANGED <<batches_, pending_, at_bottom_, id_counter_, blocks_, selection_,
                 selection_updating_, click_count_, resolved, time_rep, width_, health>>

\* The selection handlers, and repaints at any scroll position
NextPaint ==
  \/ NextSel
  \/ \E first \in 1..Len(blocks_), last \in 1..Len(blocks_) :
       first <= last /\ paintEvent(first, last)

SpecPaint == InitSel /\ [][NextPaint]_vars

\* vb.bounds() of every element of visible_blocks_
VisibleRects(blocks, visible, width) ==
  [k \in 1..Len(visible) |-> VisibleBlock_bounds(blocks, visible[k], width)]

\* The loop of TimelineView::get_cursor over visible_blocks_ from its last
\* element (the highest block drawn) down to its first: the index of the
\* first block whose bounds end at or below the point, 0 when there is none
RECURSIVE HitBlock(_, _, _)
HitBlock(rects, k, y) ==
  IF k = 0 THEN 0
  ELSE IF y <= rects[k].bottom THEN k
  ELSE HitBlock(rects, k - 1, y)

\* vb.block().get_cursor(point - rect.topLeft(), exact) for the k-th element
BlockCursor(blocks, visible, width, rects, k, point, exact) ==
  get_cursor(blocks[visible[k].block], update_layout(blocks[visible[k].block], width),
             Point(point.x - rects[k].left, point.y - rects[k].top), exact)

\* TimelineView::get_cursor once its loop has found the block hit, or none:
\* the block found answers; else an exact query returns nothing and any
\* other asks visible_blocks_.front().  defined is FALSE where front() is
\* called on an empty vector, which has no defined result; else cursor is
\* the optional<Cursor> returned.
CursorOfHit(blocks, visible, width, rects, hit, point, exact) ==
  IF hit = 0 /\ exact THEN [defined |-> TRUE, cursor |-> None]
  ELSE IF hit = 0 /\ visible = <<>> THEN [defined |-> FALSE, cursor |-> None]
  ELSE [defined |-> TRUE,
        cursor |-> BlockCursor(blocks, visible, width, rects, IF hit = 0 THEN 1 ELSE hit,
                               point, exact)]

CursorInRects(blocks, visible, width, rects, point, exact) ==
  CursorOfHit(blocks, visible, width, rects, HitBlock(rects, Len(rects), point.y), point, exact)

\* TimelineView::get_cursor(point, exact)
TimelineView_get_cursor(blocks, visible, width, point, exact) ==
  CursorInRects(blocks, visible, width, VisibleRects(blocks, visible, width), point, exact)

\* What *get_cursor(...) gives the handlers: the cursor, when there is one.
\* Without one the handler reads a vector's front() or an optional's value
\* that is not there: the process dies, or it goes on with whatever the
\* memory read holds.  query keeps what get_cursor returned.
DereferencedCursor(q) ==
  IF q.defined /\ q.cursor # None
  THEN {[health |-> "ok", cursor |-> q.cursor[1], query |-> q]}
  ELSE {[health |-> "crashed", cursor |-> Cursor("BODY", 0, 0, 0), query |-> q]}
       \cup {[health |-> "undefined", cursor |-> Cursor(type, 0, 0, 0), query |-> q] :
               type \in {"NAME", "BODY"}}

\* TimelineView::mousePressEvent for a press of the left button at a point
\* of the viewport.  No text of the model carries a link, so dispatch_input
\* leaves the event unaccepted.  lastOp keeps what get_cursor returned.
mousePressEventAt(point, in_interval) ==
  /\ health = "ok"
  /\ \E o \in DereferencedCursor(
                TimelineView_get_cursor(blocks_, visible_blocks_, width_, point, FALSE)) :
       /\ health' = o.health
       /\ click_count_' = IF in_interval THEN Min(2, click_count_ + 1) ELSE 0
       /\ selection_' = IF o.health = "crashed" THEN selection_
                        ELSE [begin |-> o.cursor, end |-> o.cursor,
                              mode |-> selection_modes[Min(2, click_count_') + 1]]
       /\ selection_updating_' = (o.health # "crashed")
       /\ lastOp' = [op |-> "mousePressEvent", txid |-> None, existing_id |-> None,
                     erased |-> 0, target |-> None, query |-> o.query]
  /\ resolved' = <<>>
  /\ emitted' = {}
  /\ UNCHANGED <<batches_, pending_, at_bottom_, id_counter_, blocks_, time_rep, width_,
                 visible_blocks_>>

\* TimelineView::mouseMoveEvent with the left button held at a point of the
\* viewport, or outside it while the drag goes on
mouseMoveEventAt(point) ==
  /\ health = "ok"
  /\ selection_updating_
  /\ \E o \in DereferencedCursor(
                TimelineView_get_cursor(blocks_, visible_blocks_, width_, point, FALSE)) :
       /\ health' = o.health
       /\ selection_' = IF o.health = "crashed" THEN selection_
                        ELSE [selection_ EXCEPT !.end = o.cursor]
       /\ resolved' = IF o.health = "crashed" THEN resolved
                      ELSE selection_text(blocks_, selection_')
       /\ lastOp' = [op |-> "mouseMoveEvent", txid |-> None, existing_id |-> None,
                     erased |-> 0, target |-> None, query |-> o.query]
  /\ emitted' = {}
  /\ UNCHANGED <<batches_, pending_, at_bottom_, id_counter_, blocks_, time_rep, width_,
                 visible_blocks_, selection_updating_, click_count_>>

\* The points of mouse events, given the bounds of the blocks drawn from the
\* lowest up: columns at the left and at the right edge; rows above the
\* viewport, in the header and at the bottom of each block drawn, and below
\* the lowest
ViewPoints(rects, width) ==
  {Point(x, y) : x \in {0, width},
                 y \in {-1, IF rects = <<>> THEN 1 ELSE rects[1].bottom + 1}
                         \cup {rects[k].top + 1 : k \in 1..Len(rects)}
                         \cup {rects[k].bottom : k \in 1..Len(rects)}}

\* A timeline of one batch of no, one or up to MaxSelEvents confirmed
\* messages, after its first paintEvent
InitCursor ==
  \E n \in 0..MaxSelEvents :
    \E senders \in {f \in [1..n -> {"A", "B"}] : n = 0 \/ f[1] = "A"} :
      /\ batches_ = IF n = 0 THEN <<>>
                    ELSE << [begin |-> "c1",
                             events |-> [i \in 1..n |->
                               EventLike(i - 1, [id |-> "e1", sender |-> senders[i],
                                                 origin_server_ts |-> 0, txid |-> None,
                                                 type |-> MessageTag, content |-> SelBody,
                                                 redacted |-> FALSE, reason |-> None])]] >>
      /\ time_rep = "signed"
      /\ width_ = WidestWidth
      /\ pending_ = <<>>
      /\ at_bottom_ = FALSE
      /\ id_counter_ = n
      /\ blocks_ = rebuild_blocks(batches_, pending_, at_bottom_)
      /\ visible_blocks_ = VisibleBlocks(blocks_, 1, Len(blocks_), width_)
      /\ selection_ = NoSelection
      /\ selection_updating_ = FALSE
      /\ click_count_ = 0
      /\ resolved = <<>>
      /\ health = "ok"
      /\ emitted = {}
      /\ lastOp = Op("init", None, None, 0)

\* Mouse input at any point, and repaints at any scroll position (of a
\* timeline without blocks a repaint draws none)
NextCursor ==
  \/ \E point \in ViewPoints(VisibleRects(blocks_, visible_blocks_, width_), width_), in_interval \in BOOLEAN :
       mousePressEventAt(point, in_interval)
  \/ \E point \in ViewPoints(VisibleRects(blocks_, visible_blocks_, width_), width_) :
       mouseMoveEventAt(point)
  \/ mouseReleaseEvent
  \/ \E first \in 1..(Len(blocks_) + 1), last \in 0..Len(blocks_) :
       /\ first <= last \/ (blocks_ = <<>> /\ first = 1 /\ last = 0)
       /\ paintEvent(first, last)

SpecCursor == InitCursor /\ [][NextCursor]_vars

----------------------------------------------------------------------------
(* Properties of the event stream *)

AllRecords(batches, pending) == ConfirmedEvents(batches) \o PendingEvents(pending)
CountId(records, id) == Cardinality({k \in 1..Len(records) : records[k].id = id})
NewestRecord(batches) == batches[Len(batches)].events[Len(batches[Len(batches)].events)]
OldestRecord(batches) == batches[1].events[1]
Earliest(pending, i) == \A j \in 1..(i - 1) : pending[j].transaction # pending[i].transaction

\* The operations that end in rebuild_blocks()
Rebuilding == {"prepend", "append", "add_pending", "redact"}

\* After the append of a confirmed event with token t, the pending record P:
\* P has left the queue, the new record has P's identifier, and it is the
\* only record of the view with it
Deduplicated(i) ==
  /\ \A k \in 1..Len(pending_') : pending_'[k].event.id # pending_[i].event.id
  /\ NewestRecord(batches_').id = pending_[i].event.id
  /\ CountId(AllRecords(batches_', pending_'), pending_[i].event.id) = 1

\* C1 as stated: for every pending record P with token t, the append of a
\* confirmed event with token t removes P from the queue and gives the new
\* confirmed record P's identifier, the only record with that identifier.
C1_AnyPendingRecord ==
  [][\A i \in 1..Len(pending_) :
       (/\ lastOp'.op = "append"
        /\ health' = "ok"
        /\ lastOp'.txid = Some(pending_[i].transaction))
       => Deduplicated(i)]_vars

\* C1 amended: the same for P the earliest-enqueued pending record with token
\* t; a later record with the same token stays queued.
C1_EarliestPendingRecord ==
  [][\A i \in 1..Len(pending_) :
       (/\ lastOp'.op = "append"
        /\ health' = "ok"
        /\ lastOp'.txid = Some(pending_[i].transaction)
        /\ Earliest(pending_, i))
       => /\ Deduplicated(i)
          /\ Len(pending_') = Len(pending_) - 1]_vars

\* An append has reconciled a pending record while another record with the
\* same token stays queued
C1_Witness ==
  /\ lastOp.op = "append"
  /\ health = "ok"
  /\ lastOp.existing_id # None
  /\ \E k \in 1..Len(pending_) : Some(pending_[k].transaction) = lastOp.txid
  /\ NewestRecord(batches_).id = lastOp.existing_id[1]

\* C2: the append of a confirmed event whose token matches no pending record
\* completes, gives the new record the next fresh identifier and leaves the
\* pending queue unchanged.
C2_UnmatchedTokenIsFresh ==
  [][(/\ lastOp'.op = "append"
      /\ lastOp'.txid # None
      /\ \A i \in 1..Len(pending_) : Some(pending_[i].transaction) # lastOp'.txid)
     => /\ health' = "ok"
        /\ pending_' = pending_
        /\ id_counter_' = id_counter_ + 1
        /\ NewestRecord(batches_').id = id_counter_]_vars

\* C3 as stated: a pending record reconciled with a confirmed event of its
\* token, through append or through prepend, gives its identifier to the
\* confirmed record.
C3_ReconcileKeepsId ==
  [][\A i \in 1..Len(pending_) :
       /\ (/\ lastOp'.op = "append"
           /\ health' = "ok"
           /\ lastOp'.txid = Some(pending_[i].transaction)
           /\ Earliest(pending_, i))
          => NewestRecord(batches_').id = pending_[i].event.id
       /\ (/\ lastOp'.op = "prepend"
           /\ lastOp'.txid = Some(pending_[i].transaction))
          => OldestRecord(batches_').id = pending_[i].event.id]_vars

\* C3 amended: through append the confirmed record carries the pending
\* record's identifier; through prepend every pending record with the token
\* is removed and the confirmed record takes the next fresh identifier,
\* which is not the pending record's.
C3_AppendKeepsIdPrependRenews ==
  [][\A i \in 1..Len(pending_) :
       /\ (/\ lastOp'.op = "append"
           /\ health' = "ok"
           /\ lastOp'.txid = Some(pending_[i].transaction)
           /\ Earliest(pending_, i))
          => NewestRecord(batches_').id = pending_[i].event.id
       /\ (/\ lastOp'.op = "prepend"
           /\ lastOp'.txid = Some(pending_[i].transaction))
          => /\ OldestRecord(batches_').id = id_counter_
             /\ OldestRecord(batches_').id # pending_[i].event.id
             /\ \A k \in 1..Len(pending_') :
                  Some(pending_'[k].transaction) # lastOp'.txid]_vars

\* A prepend has removed a pending record with the token of its event
C3_Witness ==
  /\ lastOp.op = "prepend"
  /\ lastOp.txid # None
  /\ lastOp.erased > 0
  /\ OldestRecord(batches_).event[1].txid = lastOp.txid

\* The index of the block that holds the k-th event of the block list
RECURSIVE BlockOfPosition(_, _)
BlockOfPosition(blocks, k) ==
  IF k <= Len(blocks[1].events_) THEN 1
  ELSE 1 + BlockOfPosition(Tail(blocks), k - Len(blocks[1].events_))

Abs(n) == IF n < 0 THEN -n ELSE n

\* C4: after a rebuild, two adjacent events of the event view are in the same
\* block exactly when they have the same sender, both have a timestamp, and
\* the timestamps are at most 5 minutes apart in either direction.
C4_BoundaryRule ==
  (lastOp.op \in Rebuilding /\ health # "crashed") =>
    LET view == EventView(batches_, pending_, at_bottom_)
    IN \A k \in 1..(Len(view) - 1) :
         LET a == view[k]
             b == view[k + 1]
             near == /\ a.sender = b.sender
                     /\ a.time # None
                     /\ b.time # None
                     /\ Abs(b.time[1] - a.time[1]) <= BLOCK_MERGE_INTERVAL
         IN (BlockOfPosition(blocks_, k) = BlockOfPosition(blocks_, k + 1)) <=> near

\* C5: after prepend, append, add_pending and redact the events of the
\* blocks, in block order, are exactly the confirmed events in batch order
\* followed by the pending queue when the live-edge flag is set.
C5_BlocksPartitionView ==
  (lastOp.op \in Rebuilding /\ health # "crashed") =>
    LET view == EventView(batches_, pending_, at_bottom_)
    IN Concat([i \in 1..Len(blocks_) |-> blocks_[i].events_])
         = [k \in 1..Len(view) |-> BlockEvent(view[k])]

\* A rebuild at the live edge has produced several blocks, the last of them
\* holding a pending record
C5_Witness ==
  /\ lastOp.op \in Rebuilding
  /\ health = "ok"
  /\ at_bottom_
  /\ pending_ # <<>>
  /\ batches_ # <<>>
  /\ Len(blocks_) >= 2
  /\ blocks_[Len(blocks_)].events_[Len(blocks_[Len(blocks_)].events_)].source = None

\* The regions of the block list a cursor addresses
RegionsOf(blocks, c) ==
  LET regions == Regions(blocks)
  IN {k \in 1..Len(regions) :
        cursor_in(c, regions[k].id, regions[k].type, regions[k].paragraph)}

ViewIds(batches, pending, at_bottom) ==
  LET view == EventView(batches, pending, at_bottom)
  IN {view[k].id : k \in 1..Len(view)}

\* C6: a cursor that addresses a region of the block list addresses exactly
\* one region of the block list after a prepend, append or add_pending, as
\* long as its owning event is still in the event view.
C6_CursorStaysValid ==
  [][(lastOp'.op \in {"prepend", "append", "add_pending"} /\ health' = "ok") =>
       \A c \in CursorsAt(blocks_) :
         c.event \in ViewIds(batches_', pending_', at_bottom_')
           => Cardinality(RegionsOf(blocks_', c)) = 1]_vars

----------------------------------------------------------------------------
(* Properties of the selection resolver *)

\* selection_text() has run on the current selection
Resolved == resolved # <<>>

RegionOf(c) == CHOOSE k \in RegionsOf(blocks_, c) : TRUE
Range(start, length) == [start |-> start, length |-> length]
Highlight(k) == IF resolved[k] = None THEN None ELSE Some(resolved[k][1].affected)

\* C7: a CHARACTER selection between two different regions highlights the
\* lower endpoint's region from its start to the offset, every region
\* between in full, the upper endpoint's region from the offset to its end,
\* and nothing else, whichever endpoint is begin.
C7_CharacterSpan ==
  (Resolved /\ selection_.mode = "CHARACTER"
     /\ RegionOf(selection_.begin) # RegionOf(selection_.end)) =>
    LET regions == Regions(blocks_)
        b == RegionOf(selection_.begin)
        e == RegionOf(selection_.end)
        lower == IF b < e THEN selection_.begin ELSE selection_.end
        upper == IF b < e THEN selection_.end ELSE selection_.begin
        lo == Min(b, e)
        hi == Max(b, e)
    IN /\ Len(resolved) = Len(regions)
       /\ \A k \in 1..Len(regions) :
            Highlight(k) =
              IF k < lo \/ k > hi THEN None
              ELSE IF k = lo THEN Some(Range(0, lower.pos))
              ELSE IF k = hi THEN Some(Range(upper.pos, Len(regions[k].text) - upper.pos))
              ELSE Some(Range(0, Len(regions[k].text)))

\* A CHARACTER selection from a body paragraph up into another block, made
\* upwards (begin below end), has been resolved
C7_Witness ==
  /\ Resolved
  /\ selection_.mode = "CHARACTER"
  /\ Len(blocks_) >= 2
  /\ selection_.begin.type = "BODY"
  /\ selection_.begin.pos = 1
  /\ selection_.end.type = "NAME"
  /\ RegionOf(selection_.end) - RegionOf(selection_.begin) >= 4
  /\ Highlight(RegionOf(selection_.end)) # None

\* The regions other than the one both endpoints address report no highlight
OthersClear ==
  \A k \in 1..Len(resolved) : k # RegionOf(selection_.begin) => resolved[k] = None

\* The region both endpoints address is highlighted from the smaller offset
\* over the distance between the offsets
ExactRange ==
  Highlight(RegionOf(selection_.begin)) =
    Some(Range(Min(selection_.begin.pos, selection_.end.pos),
               Abs(selection_.begin.pos - selection_.end.pos)))

\* C8 as stated: for any selection with both endpoints in one region, the
\* range of that region starts at the smaller offset and has the length
\* |begin.offset - end.offset|, and no other region is highlighted.
C8_SameRegionAnyMode ==
  (Resolved /\ RegionOf(selection_.begin) = RegionOf(selection_.end)) =>
    (ExactRange /\ OthersClear)

\* C8 amended: that range is the one of a CHARACTER selection (WORD and
\* PARAGRAPH selections widen it); in every mode no other region is
\* highlighted.
C8_SameRegionCharacterMode ==
  (Resolved /\ RegionOf(selection_.begin) = RegionOf(selection_.end)) =>
    /\ selection_.mode = "CHARACTER" => ExactRange
    /\ Highlight(RegionOf(selection_.begin)) # None
    /\ OthersClear

\* A CHARACTER selection inside one region, made backwards, has been resolved
C8_Witness ==
  /\ Resolved
  /\ selection_.mode = "CHARACTER"
  /\ RegionOf(selection_.begin) = RegionOf(selection_.end)
  /\ selection_.begin.pos > selection_.end.pos
  /\ selection_.end.pos > 0
  /\ Len(resolved) >= 8

\* Position p of the text is not between two characters of one word
NotInsideWord(text, p) ==
  \/ p <= 0
  \/ p >= Len(text)
  \/ text[p] \in WhiteSpace \cup WordSeparators
  \/ text[p + 1] \in WhiteSpace \cup WordSeparators

\* C9: in WORD mode every highlighted region's range starts at a word
\* boundary at or before the unsnapped start, ends at a word boundary at or
\* after the unsnapped end, and lies within the region's text.
C9_WordSnap ==
  (Resolved /\ selection_.mode = "WORD") =>
    LET regions == Regions(blocks_)
        unsnapped == selection_text(blocks_, [selection_ EXCEPT !.mode = "CHARACTER"])
    IN \A k \in 1..Len(regions) :
         resolved[k] # None =>
           LET r == resolved[k][1].affected
               u == unsnapped[k][1].affected
           IN /\ 0 <= r.start
              /\ r.start <= u.start
              /\ u.start + u.length <= r.start + r.length
              /\ r.start + r.length <= Len(regions[k].text)
              /\ NotInsideWord(regions[k].text, r.start)
              /\ NotInsideWord(regions[k].text, r.start + r.length)

\* C10: in PARAGRAPH mode every highlighted region is highlighted in full.
C10_ParagraphFull ==
  (Resolved /\ selection_.mode = "PARAGRAPH") =>
    LET regions == Regions(blocks_)
    IN \A k \in 1..Len(regions) :
         resolved[k] # None => Highlight(k) = Some(Range(0, Len(regions[k].text)))

\* A PARAGRAPH selection with both endpoints strictly inside their regions'
\* texts has been resolved
C10_Witness ==
  /\ Resolved
  /\ selection_.mode = "PARAGRAPH"
  /\ selection_.begin.pos = 1
  /\ selection_.end.pos = 2
  /\ selection_.end.type = "TIMESTAMP"
  /\ selection_.begin.type = "BODY"
  /\ Highlight(RegionOf(selection_.begin)) # None
  /\ Highlight(RegionOf(selection_.end)) # None

----------------------------------------------------------------------------
(* Properties of redaction *)

\* The positions of the flattened confirmed sequence whose source has the
\* identifier
Matches(batches, target) ==
  LET old == ConfirmedEvents(batches)
  IN {k \in 1..Len(old) : old[k].event[1].id = target}

FirstMatch(batches, target) ==
  CHOOSE k \in Matches(batches, target) : \A j \in Matches(batches, target) : k <= j

\* The batches have the same cursors and the same numbers of records
SameBatchStructure(a, b) ==
  /\ Len(a) = Len(b)
  /\ \A i \in 1..Len(a) : a[i].begin = b[i].begin /\ Len(a[i].events) = Len(b[i].events)

\* C11: redact changes at most the first confirmed record, in batch order,
\* whose source has the target identifier: it keeps its identifier, sender and
\* position and loses its time; every other confirmed record, the batch
\* structure, the pending queue and the counter stay, also when several
\* records have the target identifier.
C11_RedactFirstMatchOnly ==
  [][lastOp'.op = "redact" =>
       LET target == lastOp'.target[1]
           old == ConfirmedEvents(batches_)
           new == ConfirmedEvents(batches_')
       IN /\ SameBatchStructure(batches_, batches_')
          /\ pending_' = pending_
          /\ id_counter_' = id_counter_
          /\ \A k \in 1..Len(old) :
               IF Matches(batches_, target) # {} /\ k = FirstMatch(batches_, target)
               THEN /\ new[k].id = old[k].id
                    /\ new[k].sender = old[k].sender
                    /\ new[k].time = None
               ELSE new[k] = old[k]]_vars

\* A redact has run on a timeline with two unredacted records of the target
\* identifier: the first lost its time, the second kept it
C11_Witness ==
  /\ lastOp.op = "redact"
  /\ LET new == ConfirmedEvents(batches_)
         m == Matches(batches_, lastOp.target[1])
     IN /\ Cardinality(m) >= 2
        /\ new[FirstMatch(batches_, lastOp.target[1])].time = None
        /\ \E k \in m : new[k].time # None /\ ~new[k].event[1].redacted

\* C12: a redact whose target is the identifier of no confirmed record
\* raises no error and leaves the batches, the records and the pending queue
\* as they are.
C12_RedactNoMatchNoOp ==
  [][(lastOp'.op = "redact" /\ Matches(batches_, lastOp'.target[1]) = {}) =>
       /\ batches_' = batches_
       /\ pending_' = pending_
       /\ id_counter_' = id_counter_
       /\ health' = "ok"]_vars

\* A redact has run whose target no confirmed record has, on a timeline with
\* a confirmed record of another identifier and a pending record
C12_Witness ==
  /\ lastOp.op = "redact"
  /\ Matches(batches_, lastOp.target[1]) = {}
  /\ batches_ # <<>>
  /\ pending_ # <<>>
  /\ \A k \in 1..Len(ConfirmedEvents(batches_)) : ConfirmedEvents(batches_)[k].time # None

\* C13: a redact whose target record was redacted by an earlier redact leaves
\* the records as they are, and the block list is the one a rebuild of the
\* unchanged view gives.
C13_RedactIdempotent ==
  [][(/\ lastOp'.op = "redact"
      /\ Matches(batches_, lastOp'.target[1]) # {}
      /\ LET r == ConfirmedEvents(batches_)[FirstMatch(batches_, lastOp'.target[1])]
         IN r.time = None /\ r.event[1].redacted) =>
       /\ batches_' = batches_
       /\ blocks_' = rebuild_blocks(batches_, pending_, at_bottom_)]_vars

\* A record counts as redacted when its source is in redacted form
Redacted(r) == r.event # None /\ r.event[1].redacted

\* C14: every record of the view has a time exactly when it is not redacted,
\* records built from events delivered in redacted form included.
C14_TimeIffNotRedacted ==
  \A k \in 1..Len(AllRecords(batches_, pending_)) :
    LET r == AllRecords(batches_, pending_)[k]
    IN (r.time # None) <=> ~Redacted(r)

----------------------------------------------------------------------------
(* Properties of the queue, the order and the signals *)

\* The records of the queue whose token is not the given one, in queue order
OtherTokens(pending, txid) ==
  SelectSeq(pending, LAMBDA p : Some(p.transaction) # txid)

\* C15: a prepend of an event with token t leaves no pending record with
\* token t and keeps every pending record with another token, in the same
\* order; a prepend of an event without a token, or with a token no pending
\* record has, leaves the queue as it is.
C15_PrependRemovesToken ==
  [][lastOp'.op = "prepend" =>
       /\ \A k \in 1..Len(pending_') : Some(pending_'[k].transaction) # lastOp'.txid
       /\ pending_' = OtherTokens(pending_, lastOp'.txid)
       /\ (\A k \in 1..Len(pending_) : Some(pending_[k].transaction) # lastOp'.txid)
            => pending_' = pending_]_vars

\* A prepend has taken the first record out of the queue and left the record
\* of another token that was queued behind it
C15_Witness ==
  /\ lastOp.op = "prepend"
  /\ lastOp.txid # None
  /\ lastOp.erased = 1
  /\ Len(pending_) = 1
  /\ Some(pending_[1].transaction) # lastOp.txid
  /\ pending_[1].event.id = 1
  /\ OldestRecord(batches_).id = 2

\* The identifiers of the pending records the blocks hold
PendingInBlocks ==
  UNION { {blocks_[b].events_[k].id : k \in {j \in 1..Len(blocks_[b].events_) :
                                                blocks_[b].events_[j].source = None}} :
          b \in 1..Len(blocks_) }

\* C16: in every state the blocks hold the records of the pending queue
\* exactly when the live-edge flag is set.
C16_PendingShownIffAtBottom ==
  health = "ok" =>
    PendingInBlocks =
      (IF at_bottom_ THEN {pending_[k].event.id : k \in 1..Len(pending_)} ELSE {})

\* C17: a prepend puts the new record in front of the flattened confirmed
\* sequence, an append behind it, and both keep the records already there in
\* their order.
C17_PrependFrontAppendBack ==
  [][LET old == ConfirmedEvents(batches_)
         new == ConfirmedEvents(batches_')
     IN /\ lastOp'.op = "prepend" =>
             /\ new = <<new[1]>> \o old
             /\ new[1].id = id_counter_
             /\ new[1].event[1].txid = lastOp'.txid
        /\ (lastOp'.op = "append" /\ health' # "crashed") =>
             /\ new = old \o <<new[Len(new)]>>
             /\ new[Len(new)].event[1].txid = lastOp'.txid]_vars

\* Prepends and appends into different batches have built a sequence of
\* three: the prepended records newest first, then the appended one
C17_Witness ==
  /\ lastOp.op = "append"
  /\ health = "ok"
  /\ Len(batches_) >= 2
  /\ Len(batches_[1].events) = 2
  /\ LET new == ConfirmedEvents(batches_)
     IN /\ Len(new) = 3
        /\ new[1].id > new[2].id
        /\ new[3].id > new[1].id

\* C18: add_pending enqueues at the back; an append whose token several
\* pending records carry removes the earliest-enqueued of them only, reuses
\* its identifier, and leaves the others queued in their order.
C18_QueueOrderFirstMatch ==
  [][/\ lastOp'.op = "add_pending" =>
          /\ Len(pending_') = Len(pending_) + 1
          /\ SubSeq(pending_', 1, Len(pending_)) = pending_
          /\ Some(pending_'[Len(pending_')].transaction) = lastOp'.txid
     /\ \A i \in 1..Len(pending_) :
          (/\ lastOp'.op = "append"
           /\ health' = "ok"
           /\ lastOp'.txid = Some(pending_[i].transaction)
           /\ Earliest(pending_, i)) =>
            /\ Len(pending_') = Len(pending_) - 1
            /\ \A k \in 1..Len(pending_') :
                 pending_'[k] = IF k < i THEN pending_[k] ELSE pending_[k + 1]
            /\ lastOp'.existing_id = Some(pending_[i].event.id)
            /\ NewestRecord(batches_').id = pending_[i].event.id]_vars

\* An append has reused the identifier of the first of two pending records
\* with its token; the second is still queued
C18_Witness ==
  /\ lastOp.op = "append"
  /\ health = "ok"
  /\ lastOp.existing_id # None
  /\ Len(pending_) = 1
  /\ Some(pending_[1].transaction) = lastOp.txid
  /\ pending_[1].event.id > lastOp.existing_id[1]
  /\ NewestRecord(batches_).id = lastOp.existing_id[1]

\* C19: after prepend, append, add_pending and redact, need_backwards is
\* emitted unless the oldest batch starts with the room creation event, and
\* need_forwards is emitted unless the live-edge flag is set.
C19_SignalsAfterMutation ==
  (lastOp.op \in Rebuilding /\ health = "ok") =>
    /\ ~at_top(batches_) => "need_backwards" \in emitted
    /\ ~at_bottom_ => "need_forwards" \in emitted

\* C20: no two records of the view have the same identifier, and every
\* identifier handed out is below the counter, so that the next fresh one is
\* greater than all before it.
C20_IdsUniqueIncreasing ==
  health # "crashed" =>
    LET records == AllRecords(batches_, pending_)
    IN /\ \A j, k \in 1..Len(records) : j # k => records[j].id # records[k].id
       /\ \A k \in 1..Len(records) : records[k].id < id_counter_

----------------------------------------------------------------------------
(* Properties of the rendering of redacted records *)

\* The text of a redacted message: REDACTED, with the reason when there is one
RedactedText(because) ==
  IF because # None THEN REDACTED \o <<":", " ">> \o because[1] ELSE REDACTED

TextOf(paragraphs) == Concat([i \in 1..Len(paragraphs) |-> paragraphs[i]])

\* C21: after a redact that finds its target among the confirmed message
\* records, the record is still in the block list, it is the only event of
\* its block, the block has no time pair and its timestamp region reads
\* REDACTED instead of a time, and the body reads REDACTED; when the record
\* was not redacted before, the body is REDACTED alone for a redaction
\* without a reason and REDACTED with the reason appended for one with it.
C21_RedactedRendering ==
  [][\A target \in RedactInputs.targets, because \in RedactInputs.reasons,
        replaces \in BOOLEAN :
       (/\ lastOp'.op = "redact"
        /\ lastOp'.target = Some(target)
        /\ Matches(batches_, target) # {}
        /\ batches_' = RedactBatches(batches_, target, because, replaces)) =>
         LET k == FirstMatch(batches_, target)
             before == ConfirmedEvents(batches_)[k]
             block == blocks_'[BlockOfPosition(blocks_', k)]
             body == TextOf(block.events_[1].paragraphs)
         IN /\ Len(block.events_) = 1
            /\ block.events_[1].id = before.id
            /\ block.time_ = None
            /\ block.timestamp_ = REDACTED
            /\ Len(body) >= Len(REDACTED)
            /\ SubSeq(body, 1, Len(REDACTED)) = REDACTED
            /\ ~before.event[1].redacted => body = RedactedText(because)]_vars

\* A redact with a reason has hit the middle one of three confirmed records
\* of one sender and one time: the record now stands in a block of its own
\* between the blocks of its neighbours, and its body carries the reason
C21_Witness ==
  /\ lastOp.op = "redact"
  /\ Len(ConfirmedEvents(batches_)) = 3
  /\ Matches(batches_, lastOp.target[1]) # {}
  /\ FirstMatch(batches_, lastOp.target[1]) = 2
  /\ Len(blocks_) = 3
  /\ blocks_[2].time_ = None
  /\ blocks_[1].time_ # None
  /\ blocks_[3].time_ # None
  /\ TextOf(blocks_[2].events_[1].paragraphs) = RedactedText(Some(<<"r">>))

\* C22: the redaction applicator on a pending record, which has no
\* underlying event, throws the logic error and leaves the record, its time
\* and content included, as it was; a redact of the stream never gets there:
\* the applicator succeeds on every record of the batches it scans, and the
\* pending queue is not touched.
C22_ApplicatorThrowsOnPending ==
  [][/\ \A i \in 1..Len(pending_'), because \in RedactInputs.reasons, replaces \in BOOLEAN :
          LET p == pending_'[i].event
              o == EventLike_redact_or_throw(p, because, replaces)
          IN /\ o.thrown
             /\ o.record.time = p.time
             /\ o.record.content = p.content
             /\ o.record = p
     /\ lastOp'.op = "redact" =>
          /\ health' = "ok"
          /\ pending_' = pending_
          /\ \A k \in 1..Len(ConfirmedEvents(batches_)),
                because \in RedactInputs.reasons, replaces \in BOOLEAN :
               ~EventLike_redact_or_throw(ConfirmedEvents(batches_)[k], because, replaces).thrown]_vars

\* A redact has redacted a confirmed record while a pending record with a
\* time is queued and shown at the live edge
C22_Witness ==
  /\ lastOp.op = "redact"
  /\ at_bottom_
  /\ pending_ # <<>>
  /\ pending_[1].event.time # None
  /\ Matches(batches_, lastOp.target[1]) # {}
  /\ ConfirmedEvents(batches_)[FirstMatch(batches_, lastOp.target[1])].time = None
  /\ PendingInBlocks # {}

----------------------------------------------------------------------------
(* Properties of the Hit Tester *)

\* The lines of the region of the block a cursor addresses
LinesOfRegion(block, layout, c) ==
  IF c.type = "NAME" THEN layout.name
  ELSE IF c.type = "TIMESTAMP" THEN layout.timestamp
  ELSE LET i == CHOOSE i \in 1..Len(layout.paragraphs) :
                  layout.paragraphs[i].id = c.event /\ layout.paragraphs[i].paragraph = c.paragraph
       IN layout.paragraphs[i].lines

\* The point is over the text of the line
OverText(line, point) ==
  /\ naturalTextRect(line).left <= point.x
  /\ point.x <= naturalTextRect(line).right
  /\ naturalTextRect(line).top <= point.y
  /\ point.y <= naturalTextRect(line).bottom

\* C23: an exact query that returns a cursor was made at a point over the
\* text of a line, and the cursor is a position of that line in its region;
\* at every other point of the block (above the first line, below the last,
\* left or right of a line's text) it returns none.
C23_ExactNeverClamps ==
  (lastOp.op = "handle_input" /\ lastOp.cursor # None) =>
    LET block == blocks_[lastOp.block]
        layout == update_layout(block, width_)
        c == lastOp.cursor[1]
        lines == LinesOfRegion(block, layout, c)
    IN \E k \in 1..Len(lines) :
         /\ OverText(lines[k], lastOp.point)
         /\ lines[k].start <= c.pos
         /\ c.pos <= lines[k].start + lines[k].len

\* An exact query beside the text of the second line of a wrapped paragraph
\* has returned none where the query that is not exact returns the end of
\* that line
C23_Witness ==
  /\ lastOp.op = "handle_input"
  /\ lastOp.cursor = None
  /\ LET block == blocks_[lastOp.block]
         layout == update_layout(block, width_)
         lines == layout.paragraphs[1].lines
     IN /\ Len(lines) = 2
        /\ lastOp.point.y > rect(lines[2]).top
        /\ lastOp.point.y < rect(lines[2]).bottom
        /\ lastOp.point.x > naturalTextRect(lines[2]).right
        /\ get_cursor(block, layout, lastOp.point, FALSE)
             = Some(Cursor("BODY", block.events_[1].id, 0, Len(block.events_[1].paragraphs[1])))

----------------------------------------------------------------------------
(* Properties of the batches *)

\* C24: a prepend with the cursor of the oldest batch puts its record at the
\* front of that batch and keeps the number of batches, with any other
\* cursor or without a batch it opens a new oldest batch of that one record;
\* an append does the same at the newest end.  After every step no batch is
\* empty and no two adjacent batches have the same cursor.
C24_BatchByCursor ==
  [][/\ \A begin \in OrderInputs.cursors, evt \in OrderInputs.raw :
          /\ (lastOp'.op = "prepend" /\ prepend(begin, evt)) =>
               IF batches_ # <<>> /\ batches_[1].begin = begin
               THEN /\ Len(batches_') = Len(batches_)
                    /\ Len(batches_'[1].events) = Len(batches_[1].events) + 1
                    /\ Tail(batches_'[1].events) = batches_[1].events
                    /\ batches_'[1].events[1].id = id_counter_
                    /\ Tail(batches_') = Tail(batches_)
               ELSE /\ Len(batches_') = Len(batches_) + 1
                    /\ batches_'[1].begin = begin
                    /\ Len(batches_'[1].events) = 1
                    /\ batches_'[1].events[1].id = id_counter_
                    /\ Tail(batches_') = batches_
          /\ (lastOp'.op = "append" /\ health' # "crashed" /\ append(begin, evt)) =>
               LET n == Len(batches_)
                   m == Len(batches_')
               IN IF n > 0 /\ batches_[n].begin = begin
                  THEN /\ m = n
                       /\ Len(batches_'[m].events) = Len(batches_[n].events) + 1
                       /\ SubSeq(batches_'[m].events, 1, Len(batches_[n].events))
                            = batches_[n].events
                       /\ SubSeq(batches_', 1, n - 1) = SubSeq(batches_, 1, n - 1)
                  ELSE /\ m = n + 1
                       /\ batches_'[m].begin = begin
                       /\ Len(batches_'[m].events) = 1
                       /\ SubSeq(batches_', 1, n) = batches_
     /\ \A i \in 1..Len(batches_') : batches_'[i].events # <<>>
     /\ \A i \in 1..(Len(batches_') - 1) : batches_'[i].begin # batches_'[i + 1].begin]_vars

\* An append with the cursor of the newest batch has joined that batch, which
\* stands behind a batch of another cursor
C24_Witness ==
  /\ lastOp.op = "append"
  /\ health = "ok"
  /\ Len(batches_) = 2
  /\ Len(batches_[2].events) = 2
  /\ batches_[2].events[2].id = id_counter_ - 1
  /\ batches_[1].begin # batches_[2].begin

----------------------------------------------------------------------------
(* Properties of the continuation flag *)

\* resolved is what selection_text() gives for the blocks and the selection
\* as they are now
Fresh == Resolved /\ resolved = selection_text(blocks_, selection_)

\* The flag handed to region k from below: the flag of the nearest region
\* under it that reported a highlight, false when there is none
RECURSIVE FlagBelow(_)
FlagBelow(k) ==
  IF k = 1 THEN FALSE
  ELSE IF resolved[k - 1] # None THEN resolved[k - 1][1].continues
  ELSE FlagBelow(k - 1)

\* C25: in CHARACTER mode a region of text length n addressed by exactly
\* one endpoint, of offset p, gets the range [0, min(n, p)) and the flag true
\* when the highlight does not continue from below, and the range
\* [max(0, p), n) and the flag false when it does; the range lies in [0, n].
C25_OneEndpointRange ==
  (Fresh /\ selection_.mode = "CHARACTER") =>
    LET regions == Regions(blocks_)
    IN \A k \in 1..Len(regions) :
         LET begin_in == cursor_in(selection_.begin, regions[k].id, regions[k].type,
                                   regions[k].paragraph)
             end_in == cursor_in(selection_.end, regions[k].id, regions[k].type,
                                 regions[k].paragraph)
             p == IF begin_in THEN selection_.begin.pos ELSE selection_.end.pos
             n == Len(regions[k].text)
         IN (begin_in # end_in) =>
              /\ resolved[k] # None
              /\ IF FlagBelow(k)
                 THEN /\ Highlight(k) = Some(Range(Max(0, p), n - Max(0, p)))
                      /\ ~resolved[k][1].continues
                 ELSE /\ Highlight(k) = Some(Range(0, Min(n, p)))
                      /\ resolved[k][1].continues
              /\ 0 <= resolved[k][1].affected.start
              /\ 0 <= resolved[k][1].affected.length
              /\ resolved[k][1].affected.start + resolved[k][1].affected.length <= n

----------------------------------------------------------------------------
(* Properties of the blocks *)

\* C26: every block of the block list has a time pair exactly when its first
\* event has a timestamp, and then the pair is the first event's time and
\* the last event's time; every event of a block of several events has a
\* timestamp, and a block without a time pair holds one event.
C26_BlockTimePair ==
  \A b \in 1..Len(blocks_) :
    LET block == blocks_[b]
        n == Len(block.events_)
    IN /\ (block.time_ # None) <=> (block.events_[1].time # None)
       /\ block.time_ # None =>
            /\ block.events_[n].time # None
            /\ block.time_[1] = [start |-> block.events_[1].time[1],
                                 end |-> block.events_[n].time[1]]
       /\ n > 1 => \A k \in 1..n : block.events_[k].time # None
       /\ block.time_ = None => n = 1

\* A rebuild has put a redacted record in a block of its own without a time
\* pair, in front of a block of two events whose pair spans their two times
C26_Witness ==
  /\ lastOp.op \in Rebuilding
  /\ Len(blocks_) = 2
  /\ blocks_[1].time_ = None
  /\ Len(blocks_[1].events_) = 1
  /\ Len(blocks_[2].events_) = 2
  /\ blocks_[2].time_ # None
  /\ blocks_[2].time_[1].start < blocks_[2].time_[1].end

\* C27: every block of the block list holds at least one event, the runs the
\* rebuild hands to the block constructor are not empty, and a rebuild of an
\* empty event view leaves an empty block list.
C27_NoEmptyBlock ==
  /\ \A b \in 1..Len(blocks_) : Len(blocks_[b].events_) >= 1
  /\ \A at_bottom \in BOOLEAN :
       LET runs == BlockRuns(batches_, pending_, at_bottom)
       IN /\ \A i \in 1..Len(runs) : runs[i] # <<>>
          /\ EventView(batches_, pending_, at_bottom) = <<>> => runs = <<>>
  /\ (lastOp.op \in Rebuilding /\ health # "crashed"
        /\ EventView(batches_, pending_, at_bottom_) = <<>>) => blocks_ = <<>>

\* Away from the live edge a rebuild has run with nothing confirmed and two
\* records queued: the event view is empty, and so is the block list
C27_Witness ==
  /\ lastOp.op = "add_pending"
  /\ ~at_bottom_
  /\ batches_ = <<>>
  /\ Len(pending_) = 2
  /\ blocks_ = <<>>

----------------------------------------------------------------------------
(* Properties of the sources of the records *)

\* C28: after every step the records of the pending queue have no
\* underlying event and the records of the batches have one; a record of the
\* queue was in the queue before the step or is the new record of an
\* add_pending, whose identifier no record of the batches has: no record
\* comes to the queue from a batch.
C28_SourceIffConfirmed ==
  [][/\ \A k \in 1..Len(pending_') : pending_'[k].event.event = None
     /\ \A k \in 1..Len(ConfirmedEvents(batches_')) :
          ConfirmedEvents(batches_')[k].event # None
     /\ \A k \in 1..Len(pending_') :
          \/ \E j \in 1..Len(pending_) : pending_[j] = pending_'[k]
          \/ /\ lastOp'.op = "add_pending"
             /\ k = Len(pending_')
             /\ \A j \in 1..Len(ConfirmedEvents(batches_)) :
                  ConfirmedEvents(batches_)[j].id # pending_'[k].event.id
             /\ batches_' = batches_]_vars

\* An append has confirmed the first of two queued records: the record of
\* the batch has its identifier and a source, the second is still queued
\* without one
C28_Witness ==
  /\ lastOp.op = "append"
  /\ health = "ok"
  /\ lastOp.existing_id = Some(0)
  /\ Len(pending_) = 1
  /\ pending_[1].event.event = None
  /\ NewestRecord(batches_).id = 0
  /\ NewestRecord(batches_).event # None

\* C29: for a selection whose endpoints both address a region of the block
\* list, the flag is false from the upper endpoint's region on to the end of
\* the traversal of all blocks, and no region above the upper endpoint's is
\* highlighted.
C29_FlagFalseAboveUpper ==
  (Fresh /\ RegionsOf(blocks_, selection_.begin) # {}
         /\ RegionsOf(blocks_, selection_.end) # {}) =>
    LET upper == Max(RegionOf(selection_.begin), RegionOf(selection_.end))
    IN /\ resolved[upper] # None
       /\ ~resolved[upper][1].continues
       /\ \A k \in (upper + 1)..(Len(resolved) + 1) : ~FlagBelow(k)
       /\ \A k \in (upper + 1)..Len(resolved) : resolved[k] = None

\* A WORD selection that starts in the body of the last block and ends in
\* the name of that block has been resolved, with the regions of a block
\* above it in the traversal
C29_Witness ==
  /\ Resolved
  /\ selection_.mode = "WORD"
  /\ Len(blocks_) = 2
  /\ RegionOf(selection_.begin) = 1
  /\ selection_.end.type = "NAME"
  /\ selection_.end.event = blocks_[2].events_[1].id
  /\ resolved[RegionOf(selection_.end)] # None
  /\ RegionOf(selection_.end) < Len(resolved)

----------------------------------------------------------------------------
(* Properties of painting *)

\* The range of a result, if any
RangeOf(s) == IF s = None THEN None ELSE Some(s[1].affected)

\* C30: the highlight painting resolves for each region of the blocks it
\* draws is the range selection_text, over all blocks, resolves for that
\* region, also when blocks below the view are skipped.
C30_PaintEqualsCopy ==
  (lastOp.op = "paintEvent" /\ selection_ # NoSelection) =>
    LET copied == selection_text(blocks_, selection_)
        below == Len(Regions(SubSeq(blocks_, lastOp.last + 1, Len(blocks_))))
    IN \A k \in 1..Len(lastOp.painted) :
         RangeOf(lastOp.painted[k]) = RangeOf(copied[below + k])

----------------------------------------------------------------------------
(* Properties of the view's cursor query *)

\* C31: a non-exact cursor query of the view always yields a cursor, also
\* with no visible block, so the press and drag handlers, which use the
\* result unchecked, never use an absent cursor: after every press or move
\* the query was defined and returned a cursor, and the view is sound.
C31_QueryAlwaysYieldsCursor ==
  lastOp.op \in {"mousePressEvent", "mouseMoveEvent"} /\ "query" \in DOMAIN lastOp
    => /\ lastOp.query.defined
       /\ lastOp.query.cursor # None
       /\ health = "ok"

----------------------------------------------------------------------------
(* Properties of the membership narration *)

\* The events shown in the block list, in order
ShownEvents == Concat([b \in 1..Len(blocks_) |-> blocks_[b].events_])

StartsWith(text, prefix) ==
  Len(text) >= Len(prefix) /\ SubSeq(text, 1, Len(prefix)) = prefix

\* C32: a membership event about a user other than its sender whose new
\* membership is LEAVE is narrated by the target's previous membership:
\* INVITE gives "rescinded invite to", BAN gives "unbanned", anything else
\* gives "kicked", each followed by the target; and an event about another
\* user is narrated as "banned" only when its new membership is BAN.
C32_LeaveNarratedByPrevious ==
  \A k \in 1..Len(ShownEvents) :
    LET shown == ShownEvents[k]
        real == shown.source[1]
        text == TextOf(shown.paragraphs)
    IN (real.type = MemberTag /\ real.content.user # real.sender)
         => /\ real.content.membership = "leave"
                 => text = LeaveNarration(real.content.prev_membership, <<real.content.user>>)
            /\ StartsWith(text, <<"b", "a", "n", "n", "e", "d", " ">>) => real.content.membership = "ban"

====
